---- MODULE Spec2Model ----
(***************************************************************************)
(* Model of the memory retrieval and consistency engine of the Marvin      *)
(* memory service: the per-key rate limiter (agent/ratelimit.py), the      *)
(* embedding cache, duplicate detection and ranking (agent/memory.py),     *)
(* the query endpoint's ambiguity decision (agent/api/query.py), the       *)
(* TTL-bound session store (agent/api/session_store.py), the clarify       *)
(* endpoint (agent/api/clarify.py), the routes of the application          *)
(* (agent/main.py), update and delete (agent/memory.py, agent/api/update.py)*)
(* and the auto flow (agent/api/auto.py).                                  *)
(*                                                                         *)
(* Floating point scores are modelled as exact rationals in units of       *)
(* 1/SCORE_SCALE; the clock is an integer number of seconds.               *)
(***************************************************************************)
EXTENDS Integers, Sequences, FiniteSets, TLC

VARIABLES
    clock,                 \* time.time(), in whole seconds
    api_auth_key,          \* settings.api_auth_key (NoKey when not configured)
    rate_limit_counters,   \* _rate_limit_counters: (api_key, window) -> count
    rate_limit_lock,       \* _rate_limit_lock: "free" or the thread holding it
    rl_pc,                 \* per request thread: position inside rate_limit_guard
    rl_key,                \* per request thread: x_api_key
    rl_window,             \* per request thread: local variable window
    rl_count,              \* per request thread: local variable current_count
    rl_result,             \* per request thread: outcome of its last finished call
    rl_decided,            \* history: (api_key, window) -> decisions in lock order
    memories,              \* rows of table memories, in scan (rowid) order
    embedding_cache,       \* _embedding_cache: text hash -> embedding
    next_uuid,             \* number of uuid4() values drawn so far
    store_last,            \* record of the last store_memory call
    store_prev,            \* record of the store_memory call before it
    session_store,         \* _session_store: session_id -> {expires, candidates}
    sess_created,          \* history: session_id -> what create_session was given
    sess_last,             \* record of the last session store call
    q_last,                \* record of the last query_memory_endpoint call
    c_last,                \* record of the last clarify_resolution_endpoint call
    app_served,            \* history: (api_key, window) -> API requests routed
    app_last,              \* record of the last HTTP request routed by the app
    e_last,                \* record of the last embed_text call
    provider_calls,        \* history: text -> provider answers since the last clear
    st_pc,                 \* per store request: position inside store_memory
    st_local,              \* per store request: the locals of store_memory
    sg_pc,                 \* per session lookup: position in get_session_candidates
    sg_local,              \* per session lookup: its locals and its outcome
    m_last,                \* record of the last update/delete/get-by-id call
    deleted_ids,           \* history: ids removed by delete_memory
    a_last,                \* record of the last auto_endpoint call
    fn_last                \* record of the last call of a pure helper function

rlVars == <<api_auth_key, rate_limit_counters, rate_limit_lock, rl_pc, rl_key,
            rl_window, rl_count, rl_result, rl_decided>>

memVars == <<memories, embedding_cache, next_uuid, store_last, store_prev>>

sessVars == <<session_store, sess_created, sess_last>>

embVars == <<e_last, provider_calls>>

concVars == <<st_pc, st_local, sg_pc, sg_local>>

mgmtVars == <<m_last, deleted_ids>>

extVars == <<embVars, concVars, mgmtVars, a_last, fn_last>>

appVars == <<c_last, app_served, app_last, extVars>>

vars == <<clock, rlVars, memVars, sessVars, q_last, appVars>>

----------------------------------------------------------------------------
(* Bounds of the model *)

\* number of rate_limit_guard calls started in one behaviour
MaxCalls == 12

\* number of rate_limit_guard calls started by the one key of SpecBurst
MaxBurstCalls == 21

\* number of API requests one behaviour of SpecApp sends with a key
MaxAppRequests == 11

\* last instant the clock reaches in the rate limiter's specification
RateMaxClock == 60

\* number of sessions created in one behaviour
MaxSessions == 2

\* last instant the clock reaches in the session store's specification
SessMaxClock == 401

\* largest top_k a query asks for
MaxTopK == 3

\* number of store_memory calls made before the queries
MaxHistory == 3

\* rows of the table update and delete run against
MaxManageRows == 2

\* rows the table may hold when store requests run concurrently
MaxRaceRows == 3

\* ids drawn by store_memory in the life of a table
MaxLifecycleIds == 3

\* components of the vectors given to cosine_similarity
MaxDimension == 2

\* words in a query given to the question generator
MaxQueryWords == 3

----------------------------------------------------------------------------
(* Rate limiter: agent/ratelimit.py *)

NoKey == "none"

ApiKeys == {"A", "B"}

Threads == {"t1", "t2"}

\* instants at which requests are observed (both sides of a window boundary)
RateInstants == {59, 60, 61}

rate_limit_max_requests == 10

rate_limit_window_seconds == 60

WindowIndex_NoRollover(current_time) == 0

\* window = int(current_time // settings.rate_limit_window_seconds)
WindowIndex(current_time) == current_time \div rate_limit_window_seconds

CounterKey_WindowOnly(x_api_key, window) == <<"A", window>>

\* counter_key = (x_api_key, window)
CounterKey(x_api_key, window) == <<x_api_key, window>>

RateLimitDisabled_Never(auth_key) == FALSE

\* if not settings.api_auth_key: return None
RateLimitDisabled(auth_key) == auth_key = NoKey

IncrementedCount_KeepsCount(current_count) == current_count

\* _rate_limit_counters[counter_key] = current_count + 1
IncrementedCount(current_count) == current_count + 1

\* _rate_limit_counters.get(counter_key, 0)
CounterGet(counters, counter_key) ==
    IF counter_key \in DOMAIN counters THEN counters[counter_key] ELSE 0

\* _rate_limit_counters[counter_key] = value
CounterSet(counters, counter_key, value) ==
    [k \in DOMAIN counters \cup {counter_key} |->
        IF k = counter_key THEN value ELSE counters[k]]

LimitExceeded_Strict(current_count) == current_count > rate_limit_max_requests

\* if current_count >= settings.rate_limit_max_requests
LimitExceeded(current_count) == current_count >= rate_limit_max_requests

LockAvailable_Unguarded(lock) == TRUE

\* Lock.acquire() succeeds only while no thread holds the lock
LockAvailable(lock) == lock = "free"

CallsStarted(decided, pcs) ==
    LET keys == DOMAIN decided
        RECURSIVE Sum(_)
        Sum(S) == IF S = {} THEN 0
                  ELSE LET k == CHOOSE x \in S : TRUE
                       IN Len(decided[k]) + Sum(S \ {k})
    IN Sum(keys) + Cardinality({t \in Threads : pcs[t] # "idle"})

\* rate_limit_guard, up to the lock: the two early returns and the window
RateGuardEnter(t, x_api_key) ==
    /\ rl_pc[t] = "idle"
    /\ IF RateLimitDisabled(api_auth_key) \/ x_api_key = NoKey
       THEN /\ rl_result' = [rl_result EXCEPT ![t] = "skipped"]
            /\ UNCHANGED <<rl_pc, rl_key, rl_window>>
       ELSE /\ rl_pc' = [rl_pc EXCEPT ![t] = "acquire"]
            /\ rl_key' = [rl_key EXCEPT ![t] = x_api_key]
            /\ rl_window' = [rl_window EXCEPT ![t] = WindowIndex(clock)]
            /\ rl_result' = [rl_result EXCEPT ![t] = "pending"]
    /\ UNCHANGED <<clock, api_auth_key, rate_limit_counters, rate_limit_lock,
                   rl_count, rl_decided, memVars, sessVars, q_last, appVars>>

\* with _rate_limit_lock:
RateGuardAcquire(t) ==
    /\ rl_pc[t] = "acquire"
    /\ LockAvailable(rate_limit_lock)
    /\ rate_limit_lock' = t
    /\ rl_pc' = [rl_pc EXCEPT ![t] = "read"]
    /\ UNCHANGED <<clock, api_auth_key, rate_limit_counters, rl_key, rl_window,
                   rl_count, rl_result, rl_decided, memVars, sessVars, q_last, appVars>>

\* current_count = _rate_limit_counters.get(counter_key, 0)
RateGuardRead(t) ==
    /\ rl_pc[t] = "read"
    /\ rl_count' = [rl_count EXCEPT ![t] =
           CounterGet(rate_limit_counters, CounterKey(rl_key[t], rl_window[t]))]
    /\ rl_pc' = [rl_pc EXCEPT ![t] = "check"]
    /\ UNCHANGED <<clock, api_auth_key, rate_limit_counters, rate_limit_lock,
                   rl_key, rl_window, rl_result, rl_decided, memVars, sessVars,
                   q_last, appVars>>

\* the check, then either the 429 or the increment; leaving the with block
\* releases the lock on both paths
RateGuardCheck(t) ==
    LET counter_key == CounterKey(rl_key[t], rl_window[t])
        outcome == IF LimitExceeded(rl_count[t]) THEN "rejected" ELSE "allowed"
        before == IF counter_key \in DOMAIN rl_decided
                  THEN rl_decided[counter_key] ELSE << >>
    IN /\ rl_pc[t] = "check"
       /\ rate_limit_counters' =
              IF LimitExceeded(rl_count[t])
              THEN rate_limit_counters
              ELSE CounterSet(rate_limit_counters, counter_key,
                               IncrementedCount(rl_count[t]))
       /\ rl_result' = [rl_result EXCEPT ![t] = outcome]
       /\ rl_decided' = CounterSet(rl_decided, counter_key, Append(before, outcome))
       /\ rate_limit_lock' = IF rate_limit_lock = t THEN "free" ELSE rate_limit_lock
       /\ rl_pc' = [rl_pc EXCEPT ![t] = "idle"]
       /\ rl_key' = [rl_key EXCEPT ![t] = NoKey]
       /\ rl_window' = [rl_window EXCEPT ![t] = 0]
       /\ rl_count' = [rl_count EXCEPT ![t] = 0]
       /\ UNCHANGED <<clock, api_auth_key, memVars, sessVars, q_last, appVars>>

\* the wall clock moves on between the steps of the requests
RateTick ==
    /\ \E now \in RateInstants :
          /\ now > clock
          /\ now <= RateMaxClock
          /\ clock' = now
    /\ UNCHANGED <<rlVars, memVars, sessVars, q_last, appVars>>

----------------------------------------------------------------------------
(* Texts and the embedding provider *)

\* a text is a sequence of characters; " " is whitespace
IsSpace(ch) == ch = " "

RECURSIVE LStrip(_)
LStrip(text) ==
    IF text = << >> THEN << >>
    ELSE IF IsSpace(Head(text)) THEN LStrip(Tail(text)) ELSE text

RECURSIVE RStrip(_)
RStrip(text) ==
    IF text = << >> THEN << >>
    ELSE IF IsSpace(text[Len(text)]) THEN RStrip(SubSeq(text, 1, Len(text) - 1))
    ELSE text

\* str.strip()
Strip(text) == RStrip(LStrip(text))

\* hashlib.sha256(text.encode('utf-8')).hexdigest(): one key per text
GetTextHash(text) == <<"sha256", text>>

\* the provider's answer for each normalized text it is asked about; every
\* vector has norm 20, so that scores are exact multiples of 1/SCORE_SCALE
ProviderEmbedding(text) ==
    CASE text = <<"a">> -> <<20, 0, 0, 0, 0>>
      [] text = <<"b">> -> <<17, 10, 3, 1, 1>>
      [] text = <<"c">> -> <<0, 20, 0, 0, 0>>
      [] text = <<"d">> -> <<16, 12, 0, 0, 0>>
      [] text = <<"q">> -> <<14, 3, 13, 5, 1>>
      [] text = <<"r">> -> <<9, 1, 17, 5, 2>>
      [] text = <<"s">> -> <<9, 3, 15, 9, 2>>
      [] OTHER -> <<0, 0, 0, 0, 20>>

SCORE_SCALE == 20 * 20

RECURSIVE Dot(_, _)
Dot(a, b) ==
    IF a = << >> THEN 0 ELSE Head(a) * Head(b) + Dot(Tail(a), Tail(b))

\* integer square root of n < 4096, bit by bit; exact on the perfect squares
\* the model uses
ISqrt(n) ==
    LET Step(r, bit) == IF (r + bit) * (r + bit) <= n THEN r + bit ELSE r
    IN Step(Step(Step(Step(Step(Step(0, 32), 16), 8), 4), 2), 1)

\* np.linalg.norm
Norm(a) == ISqrt(Dot(a, a))

\* the two ValueError cases of cosine_similarity
CosineRaises(a, b) == a = << >> \/ b = << >> \/ Len(a) # Len(b)

\* cosine_similarity, in units of 1/SCORE_SCALE
cosine_similarity(a, b) ==
    LET norm_a == Norm(a)
        norm_b == Norm(b)
    IN IF norm_a = 0 \/ norm_b = 0 THEN 0
       ELSE (Dot(a, b) * SCORE_SCALE) \div (norm_a * norm_b)

\* json.dumps / json.loads of an embedding
JsonDumps(embedding) == [json |-> embedding]

JsonLoads(embedding_json) == embedding_json.json

----------------------------------------------------------------------------
(* store_memory: agent/memory.py *)

DUPLICATE_THRESHOLD == (85 * SCORE_SCALE) \div 100

IsDuplicate_Strict(similarity) == similarity > DUPLICATE_THRESHOLD

\* if similarity >= 0.85
IsDuplicate(similarity) == similarity >= DUPLICATE_THRESHOLD

\* a metadata argument: a dict with its items, or some other object
Dict(items) == [is_dict |-> TRUE, items |-> items]

NotADict == [is_dict |-> FALSE, items |-> << >>]

\* the outcome of a call that raised
Raised == [raised |-> TRUE]

NoValue == "None"

DictGet_NoDefault(d, key, default) ==
    IF key \in DOMAIN d.items THEN d.items[key] ELSE NoValue

\* metadata.get(key, default)
DictGet(d, key, default) ==
    IF key \in DOMAIN d.items THEN d.items[key] ELSE default

RECURSIVE BestDuplicateFrom(_, _, _)
BestDuplicateFrom(rows, new_embedding, i) ==
    IF i > Len(rows) THEN 0
    ELSE LET rest == BestDuplicateFrom(rows, new_embedding, i + 1)
             sim == cosine_similarity(new_embedding, JsonLoads(rows[i].embedding))
         IN IF ~IsDuplicate(sim) THEN rest
            ELSE IF rest # 0 /\ cosine_similarity(new_embedding,
                                   JsonLoads(rows[rest].embedding)) > sim
                 THEN rest ELSE i

\* the for loop over existing_memories: index of the first row whose
\* similarity reaches the threshold, 0 when the loop runs to its end
RECURSIVE FirstDuplicateFrom(_, _, _)
FirstDuplicateFrom(rows, new_embedding, i) ==
    IF i > Len(rows) THEN 0
    ELSE IF IsDuplicate(cosine_similarity(new_embedding, JsonLoads(rows[i].embedding)))
         THEN i
         ELSE FirstDuplicateFrom(rows, new_embedding, i + 1)

\* uuid.uuid4(): a value never drawn before
Uuid4_Reused(n) == 1

Uuid4(n) == n + 1

NewRow_RawText(memory_id, text, normalized_text, new_embedding, metadata) ==
    [id |-> memory_id,
     text |-> text,
     embedding |-> JsonDumps(new_embedding),
     timestamp |-> DictGet(metadata, "timestamp", NoValue),
     language |-> DictGet(metadata, "language", "he"),
     location |-> DictGet(metadata, "location", NoValue)]

\* the VALUES tuple of the INSERT
NewRow(memory_id, text, normalized_text, new_embedding, metadata) ==
    [id |-> memory_id,
     text |-> normalized_text,
     embedding |-> JsonDumps(new_embedding),
     timestamp |-> DictGet(metadata, "timestamp", NoValue),
     language |-> DictGet(metadata, "language", "he"),
     location |-> DictGet(metadata, "location", NoValue)]

StoreTexts == {<<"a">>, <<" ", "a", " ">>, <<"b">>, <<"d", " ">>, <<" ">>}

Metadatas == {Dict(<< >>), Dict([timestamp |-> "ts"]),
              Dict([timestamp |-> "ts", language |-> "en", location |-> "home"]),
              NotADict}

NoCall == [status |-> "none", text |-> << >>, result |-> Raised]

\* a store request that has not started
NoStore == [status |-> "none", text |-> << >>, result |-> Raised,
            new_embedding |-> << >>, existing_memories |-> << >>]

\* a session lookup that has not started
NoLookup == [status |-> "none", session_id |-> 0, data |-> [found |-> FALSE],
             now |-> 0, result |-> [found |-> FALSE]]

\* no update, delete or get-by-id call yet
NoManage == [op |-> "none", status |-> "none", memory_id |-> 0,
             new_text |-> << >>, result |-> Raised]

\* no embed_text call yet
NoEmbed == [status |-> "none", text |-> << >>, result |-> << >>,
            called |-> FALSE, provider_ok |-> TRUE, cache_before |-> << >>,
            prev_status |-> "none", prev_text |-> << >>, flip |-> FALSE]

\* embed_text: the cache after the call (the provider is asked on a miss only)
CacheAfterEmbed(cache, normalized_text) ==
    IF GetTextHash(normalized_text) \in DOMAIN cache THEN cache
    ELSE [h \in DOMAIN cache \cup {GetTextHash(normalized_text)} |->
             IF h = GetTextHash(normalized_text)
             THEN ProviderEmbedding(normalized_text) ELSE cache[h]]

\* store_memory(text, metadata) as a function of the table, the cache and the
\* uuid source: what it returns or raises, and what it leaves behind.
\* provider_ok and db_ok say whether the embedding provider and SQLite answer
\* or raise during this call
StoreOutcome(rows, cache, uuid_count, text, metadata, provider_ok, db_ok) ==
    LET normalized_text == Strip(text)
        hit == GetTextHash(normalized_text) \in DOMAIN cache
        cache2 == CacheAfterEmbed(cache, normalized_text)
        new_embedding == cache2[GetTextHash(normalized_text)]
        dup == FirstDuplicateFrom(rows, new_embedding, 1)
        memory_id == Uuid4(uuid_count)
        Outcome(status, result, rows2, cache3, count2) ==
            [status |-> status, result |-> result, memories |-> rows2,
             embedding_cache |-> cache3, next_uuid |-> count2]
    IN IF normalized_text = << >> \/ ~metadata.is_dict
       THEN Outcome("ValueError", Raised, rows, cache, uuid_count)
       ELSE IF ~hit /\ ~provider_ok
       THEN Outcome("OpenAIError", Raised, rows, cache, uuid_count)
       ELSE IF ~db_ok
       THEN Outcome("sqlite3.Error", Raised, rows, cache2, uuid_count)
       ELSE IF dup # 0
       THEN Outcome("ok",
                    [duplicate_detected |-> TRUE,
                     existing_memory_preview |-> rows[dup].text,
                     similarity_score |->
                         cosine_similarity(new_embedding,
                                           JsonLoads(rows[dup].embedding)),
                     memory_id |-> rows[dup].id],
                    rows, cache2, uuid_count)
       ELSE IF DictGet(metadata, "timestamp", NoValue) = NoValue
       THEN \* timestamp TEXT NOT NULL: the INSERT raises sqlite3.IntegrityError
            Outcome("sqlite3.Error", Raised, rows, cache2, uuid_count)
       ELSE Outcome("ok",
                    [duplicate_detected |-> FALSE, memory_id |-> memory_id],
                    Append(rows, NewRow(memory_id, text, normalized_text,
                                        new_embedding, metadata)),
                    cache2, memory_id)

\* one call of store_memory
StoreMemory(text, metadata, provider_ok, db_ok) ==
    \E out \in {StoreOutcome(memories, embedding_cache, next_uuid, text, metadata,
                             provider_ok, db_ok)} :
       /\ memories' = out.memories
       /\ embedding_cache' = out.embedding_cache
       /\ next_uuid' = out.next_uuid
       /\ store_last' = [status |-> out.status, text |-> text,
                         metadata |-> metadata, result |-> out.result,
                         count_before |-> Len(memories)]
       /\ store_prev' = [status |-> store_last.status,
                         text |-> Strip(store_last.text),
                         result |-> store_last.result]
       /\ UNCHANGED <<clock, rlVars, sessVars, q_last, appVars>>

Requests == {"r1", "r2"}

\* everything outside the store, the cache and the sessions, at rest
ExtInit ==
    /\ e_last = NoEmbed
    /\ provider_calls = << >>
    /\ st_pc = [r \in Requests |-> "idle"]
    /\ st_local = [r \in Requests |-> NoStore]
    /\ sg_pc = [r \in Requests |-> "idle"]
    /\ sg_local = [r \in Requests |-> NoLookup]
    /\ m_last = NoManage
    /\ deleted_ids = {}
    /\ a_last = NoCall
    /\ fn_last = NoCall

MemInit ==
    /\ memories = << >>
    /\ embedding_cache = << >>
    /\ next_uuid = 0
    /\ store_last = NoCall
    /\ store_prev = NoCall
    /\ q_last = NoCall
    /\ c_last = NoCall
    /\ app_served = << >>
    /\ app_last = NoCall
    /\ ExtInit

----------------------------------------------------------------------------
(* Session store: agent/api/session_store.py *)

SESSION_TTL_SECONDS == 300

\* a MemoryCandidate model object built from the fields of a dict
MemoryCandidate(d) ==
    [cls |-> "MemoryCandidate", memory_id |-> d.memory_id, text |-> d.text,
     similarity_score |-> d.similarity_score]

\* MemoryCandidate.model_dump(): the plain dict of the fields
ModelDump(c) ==
    [memory_id |-> c.memory_id, text |-> c.text,
     similarity_score |-> c.similarity_score]

ExpiresAt_NoTTL(now) == now

\* "expires": time.time() + SESSION_TTL_SECONDS
ExpiresAt(now) == now + SESSION_TTL_SECONDS

SessionExpired_AtExpiry(now, expires) == now >= expires

\* if time.time() > data["expires"]
SessionExpired(now, expires) == now > expires

\* [c.model_dump() for c in candidates]
DumpAll(candidates) == [i \in 1..Len(candidates) |-> ModelDump(candidates[i])]

LoadAll_Live(dicts) ==
    LET live == SelectSeq(dicts, LAMBDA d : \E i \in 1..Len(memories) :
                                               /\ memories[i].id = d.memory_id
                                               /\ memories[i].text = d.text)
    IN [i \in 1..Len(live) |-> MemoryCandidate(live[i])]

\* [MemoryCandidate(**c) for c in data["candidates"]]
LoadAll(dicts) == [i \in 1..Len(dicts) |-> MemoryCandidate(dicts[i])]

\* dict with one more key / with one key deleted
DictPut(d, key, value) ==
    [k \in DOMAIN d \cup {key} |-> IF k = key THEN value ELSE d[k]]

DictDel_All(d, key) == << >>

\* del d[key]
DictDel(d, key) == [k \in DOMAIN d \ {key} |-> d[k]]

EntryAfterRead_Renewed(data, now) == [data EXCEPT !.expires = now + SESSION_TTL_SECONDS]

\* return [MemoryCandidate(**c) for c in data["candidates"]]: a read writes
\* nothing back to the entry
EntryAfterRead(data, now) == data

Cand1 == MemoryCandidate([memory_id |-> 1, text |-> <<"a">>, similarity_score |-> 280])

Cand2 == MemoryCandidate([memory_id |-> 2, text |-> <<"d">>, similarity_score |-> 260])

CandidateLists == {<< >>, <<Cand1>>, <<Cand1, Cand2>>, <<Cand2, Cand1>>}

\* instants at which the session store is used (around the two expiry times)
SessionInstants == {100, 300, 301, 400, 401}

\* what a session store call returns: None, or a value
NotFound == [found |-> FALSE]

Found(value) == [found |-> TRUE, value |-> value]

\* create_session(candidates)
CreateSession(candidates) ==
    LET session_id == Uuid4(next_uuid)
    IN /\ Cardinality(DOMAIN sess_created) < MaxSessions
       /\ next_uuid' = session_id
       /\ session_store' = DictPut(session_store, session_id,
              [expires |-> ExpiresAt(clock), candidates |-> DumpAll(candidates)])
       /\ sess_created' = DictPut(sess_created, session_id,
              [candidates |-> candidates, created_at |-> clock])
       /\ sess_last' = [op |-> "create", session_id |-> session_id, now |-> clock,
                        returned |-> Found(session_id),
                        before |-> session_store, after |-> session_store']
       /\ UNCHANGED <<clock, rlVars, memories, embedding_cache, store_last,
                      store_prev, q_last, appVars>>

\* get_session_candidates(session_id)
GetSessionCandidates(session_id) ==
    LET found == session_id \in DOMAIN session_store
        expired == found /\ SessionExpired(clock, session_store[session_id].expires)
        returned == IF ~found \/ expired THEN NotFound
                    ELSE Found(LoadAll(session_store[session_id].candidates))
    IN /\ session_store' =
              IF expired THEN DictDel(session_store, session_id)
              ELSE IF found
              THEN DictPut(session_store, session_id,
                           EntryAfterRead(session_store[session_id], clock))
              ELSE session_store
       /\ sess_last' = [op |-> "get", session_id |-> session_id, now |-> clock,
                        returned |-> returned,
                        before |-> session_store, after |-> session_store']
       /\ UNCHANGED <<clock, rlVars, memVars, sess_created, q_last, appVars>>

SessionTick ==
    /\ \E now \in SessionInstants :
          /\ now > clock
          /\ now <= SessMaxClock
          /\ clock' = now
    /\ UNCHANGED <<rlVars, memVars, sessVars, q_last, appVars>>

SessInit ==
    /\ session_store = << >>
    /\ sess_created = << >>
    /\ sess_last = [op |-> "none"]

----------------------------------------------------------------------------
(* query_memory (agent/memory.py) and the query endpoint (agent/api/query.py) *)

clarify_min_candidates == 2

CLARIFY_SCORE_GAP == (5 * SCORE_SCALE) \div 100

Abs(x) == IF x < 0 THEN -x ELSE x

Min(x, y) == IF x < y THEN x ELSE y

\* the result dicts of the scan, in scan order
ScanResults(rows, query_embedding) ==
    [i \in 1..Len(rows) |->
        [memory_id |-> rows[i].id,
         text |-> rows[i].text,
         similarity_score |->
             cosine_similarity(query_embedding, JsonLoads(rows[i].embedding))]]

RECURSIVE InsertDesc_Unstable(_, _)
InsertDesc_Unstable(sorted, x) ==
    IF sorted = << >> THEN <<x>>
    ELSE IF Head(sorted).similarity_score > x.similarity_score
         THEN <<Head(sorted)>> \o InsertDesc_Unstable(Tail(sorted), x)
         ELSE <<x>> \o sorted

\* place x after every element whose score is at least x's (stable, descending)
RECURSIVE InsertDesc(_, _)
InsertDesc(sorted, x) ==
    IF sorted = << >> THEN <<x>>
    ELSE IF Head(sorted).similarity_score >= x.similarity_score
         THEN <<Head(sorted)>> \o InsertDesc(Tail(sorted), x)
         ELSE <<x>> \o sorted

\* results.sort(key=lambda x: x["similarity_score"], reverse=True)
RECURSIVE SortDesc(_)
SortDesc(results) ==
    IF results = << >> THEN << >>
    ELSE InsertDesc(SortDesc(SubSeq(results, 1, Len(results) - 1)),
                    results[Len(results)])

QueryMemory_CutBeforeSort(rows, query_embedding, top_k) ==
    LET scanned == ScanResults(rows, query_embedding)
    IN SortDesc(SubSeq(scanned, 1, Min(top_k, Len(scanned))))

\* query_memory's return value once the query embedding is known
QueryMemory(rows, query_embedding, top_k) ==
    LET sorted == SortDesc(ScanResults(rows, query_embedding))
    IN SubSeq(sorted, 1, Min(top_k, Len(sorted)))

NeedsClarification_TopScore(memory_candidates) ==
    /\ Len(memory_candidates) >= clarify_min_candidates
    /\ Abs(memory_candidates[1].similarity_score
           - memory_candidates[2].similarity_score) <= CLARIFY_SCORE_GAP
    /\ memory_candidates[1].similarity_score > (70 * SCORE_SCALE) \div 100

\* the value of clarification_required after the "Check if clarification is
\* needed" block
NeedsClarification(memory_candidates) ==
    /\ Len(memory_candidates) >= clarify_min_candidates
    /\ Abs(memory_candidates[1].similarity_score
           - memory_candidates[2].similarity_score) <= CLARIFY_SCORE_GAP

\* fields of QueryResponse without a default (agent/api/models.py)
QueryResponseRequired == {"session_id", "candidates"}

\* keyword arguments of the QueryResponse(...) call in the endpoint
QueryResponseGiven ==
    {"candidates", "clarification_required", "clarification_question"}

QueryTexts == {<<"q">>, <<"r", " ">>, <<"s">>, <<" ">>}

\* query_memory_endpoint(request) as a function of the table and the cache:
\* the handler's locals when it ends, its outcome and the cache it leaves.
\* provider_ok as in StoreOutcome
QueryOutcome(rows, cache, query, top_k, provider_ok) ==
    LET normalized_query == Strip(query)
        hit == GetTextHash(normalized_query) \in DOMAIN cache
        cache2 == CacheAfterEmbed(cache, normalized_query)
        candidates == QueryMemory(rows, cache2[GetTextHash(normalized_query)], top_k)
        memory_candidates ==
            [i \in 1..Len(candidates) |-> MemoryCandidate(candidates[i])]
        required == NeedsClarification(memory_candidates)
        Outcome(status, cands, req, response, cache3) ==
            [status |-> status, candidates |-> cands,
             clarification_required |-> req, result |-> response,
             embedding_cache |-> cache3]
    IN IF normalized_query = << >> \/ top_k <= 0 \/ top_k > 100
       THEN Outcome("InvalidInputError", << >>, FALSE, Raised, cache)
       ELSE IF ~hit /\ ~provider_ok
       THEN Outcome("OpenAIServiceError", << >>, FALSE, Raised, cache)
       ELSE IF ~(QueryResponseRequired \subseteq QueryResponseGiven)
       THEN \* pydantic rejects the response object; except Exception -> 500
            Outcome("MemoryServiceError", memory_candidates, required, Raised, cache2)
       ELSE Outcome("ok", memory_candidates, required,
                    [candidates |-> memory_candidates,
                     clarification_required |-> required],
                    cache2)

\* one call of query_memory_endpoint; it never touches the session store
QueryEndpoint(query, top_k, provider_ok) ==
    \E out \in {QueryOutcome(memories, embedding_cache, query, top_k, provider_ok)} :
       /\ UNCHANGED <<clock, rlVars, memories, next_uuid, store_last, store_prev,
                      sessVars, appVars>>
       /\ embedding_cache' = out.embedding_cache
       /\ q_last' = [status |-> out.status, text |-> query, top_k |-> top_k,
                     provider_ok |-> provider_ok,
                     candidates |-> out.candidates,
                     clarification_required |-> out.clarification_required,
                     result |-> out.result,
                     sessions_before |-> session_store,
                     sessions_after |-> session_store']

----------------------------------------------------------------------------
(* clarify_resolution_endpoint: agent/api/clarify.py *)

\* a field of a JSON request body: left out, or given with a value
Absent == [given |-> FALSE]

Given(value) == [given |-> TRUE, value |-> value]

\* the fields ClarifyRequest declares (agent/api/models.py); pydantic drops
\* every other field of the body, and reading an attribute that is not a
\* declared field raises AttributeError
ClarifyRequestFields == {"session_id", "query", "chosen_memory_id"}

\* its fields declared with Field(...): the body must carry them
ClarifyRequestRequired == {"query", "chosen_memory_id"}

\* memory ids are the numbers Uuid4 draws; this one stands for an id string
\* that is empty or all whitespace
BlankId == 0

\* str.lower() on the characters of the model
LowerChar(ch) ==
    CASE ch = "A" -> "a"
      [] ch = "C" -> "c"
      [] ch = "D" -> "d"
      [] ch = "W" -> "w"
      [] OTHER -> ch

Lower(text) == [i \in 1..Len(text) |-> LowerChar(text[i])]

\* re.findall(r"\w+", text), as a set: the maximal runs of word characters
RECURSIVE WordsFrom(_, _)
WordsFrom(text, current) ==
    IF text = << >> THEN (IF current = << >> THEN {} ELSE {current})
    ELSE IF IsSpace(Head(text))
         THEN (IF current = << >> THEN {} ELSE {current})
                 \cup WordsFrom(Tail(text), << >>)
         ELSE WordsFrom(Tail(text), Append(current, Head(text)))

Words(text) == WordsFrom(Lower(text), << >>)

\* overlap = len(phrase_words & cand_words)
Overlap(phrase, cand_text) == Cardinality(Words(phrase) \cap Words(cand_text))

\* the for loop over candidates: best_candidate (0 for None) when it ends
RECURSIVE BestOverlapFrom(_, _, _, _, _)
BestOverlapFrom(candidates, phrase, i, best_candidate, best_overlap) ==
    IF i > Len(candidates) THEN best_candidate
    ELSE LET overlap == Overlap(phrase, candidates[i].text)
         IN IF overlap > best_overlap
            THEN BestOverlapFrom(candidates, phrase, i + 1, i, overlap)
            ELSE BestOverlapFrom(candidates, phrase, i + 1, best_candidate,
                                 best_overlap)

\* the cache after embed_text was called for each text of a list in turn
RECURSIVE CacheAfterEmbedAll(_, _)
CacheAfterEmbedAll(cache, texts) ==
    IF texts = << >> THEN cache
    ELSE CacheAfterEmbedAll(CacheAfterEmbed(cache, Strip(Head(texts))), Tail(texts))

\* max(candidates, key=...): the first candidate with the largest similarity
\* to the phrase
RECURSIVE MaxSimilarFrom(_, _, _, _)
MaxSimilarFrom(candidates, phrase_embedding, cache, i) ==
    IF i = Len(candidates) THEN i
    ELSE LET rest == MaxSimilarFrom(candidates, phrase_embedding, cache, i + 1)
             Key(k) == cosine_similarity(phrase_embedding,
                           cache[GetTextHash(Strip(candidates[k].text))])
         IN IF Key(i) >= Key(rest) THEN i ELSE rest

\* get_memory_by_id: the row's dict, or None
GetMemoryById(rows, memory_id) ==
    IF \E j \in 1..Len(rows) : rows[j].id = memory_id
    THEN LET j == CHOOSE j \in 1..Len(rows) : rows[j].id = memory_id
         IN Found([memory_id |-> rows[j].id, text |-> rows[j].text])
    ELSE NotFound

\* the try block of clarify_resolution_endpoint
ClarifyBody(rows, cache, request, provider_ok) ==
    LET Outcome(status, result, cache2) ==
            [status |-> status, result |-> result, embedding_cache |-> cache2]
        Resolve(chosen_id, cache2) ==
            LET chosen_memory == GetMemoryById(rows, chosen_id)
            IN IF ~chosen_memory.found
               THEN Outcome("InvalidInputError", Raised, cache2)
               ELSE Outcome("ok",
                            [clarification_resolved |-> TRUE,
                             memory_id |-> chosen_memory.value.memory_id,
                             text |-> chosen_memory.value.text],
                            cache2)
        query == Strip(request.query.value)
        by_id == request.chosen_memory_id.given
                    /\ request.chosen_memory_id.value # BlankId
        by_phrase == request.chosen_memory_phrase.given
                        /\ Strip(request.chosen_memory_phrase.value) # << >>
        phrase == Strip(request.chosen_memory_phrase.value)
        query_hit == GetTextHash(query) \in DOMAIN cache
        cache_q == CacheAfterEmbed(cache, query)
        candidates == QueryMemory(rows, cache_q[GetTextHash(query)],
                                  clarify_min_candidates)
        best_candidate == BestOverlapFrom(candidates, phrase, 1, 0, 0)
        texts == <<phrase>> \o [i \in 1..Len(candidates) |-> candidates[i].text]
        all_hit == \A i \in 1..Len(texts) :
                       GetTextHash(Strip(texts[i])) \in DOMAIN cache_q
        cache_f == CacheAfterEmbedAll(cache_q, texts)
        most_similar == MaxSimilarFrom(candidates, cache_f[GetTextHash(phrase)],
                                       cache_f, 1)
    IN IF query = << >> THEN Outcome("InvalidInputError", Raised, cache)
       ELSE IF by_id THEN Resolve(request.chosen_memory_id.value, cache)
       ELSE IF ~by_phrase THEN Outcome("InvalidInputError", Raised, cache)
       ELSE IF ~query_hit /\ ~provider_ok
       THEN Outcome("OpenAIServiceError", Raised, cache)
       ELSE IF candidates = << >> THEN Outcome("InvalidInputError", Raised, cache_q)
       ELSE IF best_candidate # 0
       THEN Resolve(candidates[best_candidate].memory_id, cache_q)
       ELSE IF ~all_hit /\ ~provider_ok
       THEN Outcome("OpenAIServiceError", Raised, cache_q)
       ELSE Resolve(candidates[most_similar].memory_id, cache_f)

\* a POST /api/v1/clarify with a JSON body: validation of the body against
\* ClarifyRequest, the logger.info call ahead of the try block, which reads
\* request.chosen_memory_phrase, then the try block
ClarifyOutcome(rows, cache, body, provider_ok) ==
    LET request == [f \in DOMAIN body |->
                       IF f \in ClarifyRequestFields THEN body[f] ELSE Absent]
    IN IF \/ \E f \in ClarifyRequestRequired : ~body[f].given
          \/ body.query.value = << >>
       THEN [status |-> "RequestValidationError", result |-> Raised,
             embedding_cache |-> cache]
       ELSE IF "chosen_memory_phrase" \notin ClarifyRequestFields
       THEN [status |-> "AttributeError", result |-> Raised,
             embedding_cache |-> cache]
       ELSE ClarifyBody(rows, cache, request, provider_ok)

ClarifyTexts == {<<"A", " ", "b">>, <<"q">>, <<" ">>}

\* the request bodies the clients of the model send
ClarifyBodies ==
    [session_id : {Absent, Given(9)},
     query : {Given(<<"q">>), Given(<<" ">>), Absent},
     chosen_memory_id : {Absent, Given(BlankId), Given(1), Given(9)},
     chosen_memory_phrase : {Absent} \cup {Given(t) : t \in ClarifyTexts}]

\* one call of the clarify endpoint; it never touches the session store
ClarifyEndpoint(body, provider_ok) ==
    \E out \in {ClarifyOutcome(memories, embedding_cache, body, provider_ok)} :
       /\ UNCHANGED <<clock, rlVars, memories, next_uuid, store_last, store_prev,
                      sessVars, q_last, app_served, app_last, extVars>>
       /\ embedding_cache' = out.embedding_cache
       /\ c_last' = [status |-> out.status, request |-> body,
                     result |-> out.result, provider_ok |-> provider_ok,
                     memories_before |-> memories,
                     cache_before |-> embedding_cache,
                     sessions_before |-> session_store]

----------------------------------------------------------------------------
(* The application: routes and their dependencies, agent/main.py *)

\* the operations of the API
CoreEndpoints == {"store", "query", "update", "delete", "cancel", "clarify", "auto"}

\* routes that answer without touching the engine: GET /health and the
\* legacy redirects
PlainEndpoints == {"health", "legacy"}

\* app.include_router(...): the routers the app mounts
MountedRouters == {"store", "query", "update", "delete", "cancel", "clarify", "admin"}

\* the dependencies a router runs ahead of its handlers: neither the
\* APIRouter(...) declarations nor the include_router calls name any
RouterDependencies(router) == {}

\* rate_limit_guard as one step, the lock held: the decision and the counters
GuardOutcome(counters, auth_key, x_api_key, now) ==
    LET counter_key == CounterKey(x_api_key, WindowIndex(now))
        current_count == CounterGet(counters, counter_key)
    IN IF RateLimitDisabled(auth_key) \/ x_api_key = NoKey
       THEN [allowed |-> TRUE, counters |-> counters]
       ELSE IF LimitExceeded(current_count)
       THEN [allowed |-> FALSE, counters |-> counters]
       ELSE [allowed |-> TRUE,
             counters |-> CounterSet(counters, counter_key,
                                     IncrementedCount(current_count))]

\* store_memory_endpoint (agent/api/store.py): HTTP status and what it leaves
StoreEndpointOutcome(rows, cache, uuid_count, text, provider_ok) ==
    LET metadata == Dict([timestamp |-> "ts", language |-> "he",
                          location |-> NoValue])
        out == StoreOutcome(rows, cache, uuid_count, Strip(text), metadata,
                            provider_ok, TRUE)
    IN IF Strip(text) = << >>
       THEN [status |-> "InvalidInputError", http_status |-> 400,
             memories |-> rows, embedding_cache |-> cache,
             next_uuid |-> uuid_count]
       ELSE [status |-> IF out.status = "OpenAIError" THEN "OpenAIServiceError"
                        ELSE IF out.status = "sqlite3.Error" THEN "DatabaseError"
                        ELSE IF out.status # "ok" THEN "MemoryServiceError"
                        ELSE "ok",
             http_status |-> IF out.status = "OpenAIError" THEN 503
                             ELSE IF out.status # "ok" THEN 500
                             ELSE IF out.result.duplicate_detected THEN 409
                             ELSE 201,
             memories |-> out.memories, embedding_cache |-> out.embedding_cache,
             next_uuid |-> out.next_uuid]

\* the HTTP status the exception handlers give an outcome
HttpStatus(status) ==
    CASE status = "ok" -> 200
      [] status = "InvalidInputError" -> 400
      [] status = "RequestValidationError" -> 422
      [] status = "MemoryNotFoundError" -> 404
      [] status = "OpenAIServiceError" -> 503
      [] OTHER -> 500

AppTexts == {<<"a">>, <<"c">>}

\* the body POST /api/v1/clarify is sent in the application's specification
AppClarifyBody ==
    [session_id |-> Absent, query |-> Given(<<"q">>),
     chosen_memory_id |-> Given(1), chosen_memory_phrase |-> Absent]

\* one HTTP request as the app routes it: the dependencies of the route, then
\* its handler
AppOutcome(endpoint, x_api_key, text) ==
    LET Same(http_status, counters) ==
            [http_status |-> http_status, memories |-> memories,
             embedding_cache |-> embedding_cache, next_uuid |-> next_uuid,
             counters |-> counters]
        guard == IF "rate_limit_guard" \in RouterDependencies(endpoint)
                 THEN GuardOutcome(rate_limit_counters, api_auth_key, x_api_key,
                                   clock)
                 ELSE [allowed |-> TRUE, counters |-> rate_limit_counters]
        stored == StoreEndpointOutcome(memories, embedding_cache, next_uuid, text, TRUE)
        queried == QueryOutcome(memories, embedding_cache, text, MaxTopK, TRUE)
        clarified == ClarifyOutcome(memories, embedding_cache, AppClarifyBody, TRUE)
    IN IF endpoint \in PlainEndpoints THEN Same(200, rate_limit_counters)
       ELSE IF endpoint \notin MountedRouters THEN Same(404, rate_limit_counters)
       ELSE IF ~guard.allowed THEN Same(429, guard.counters)
       ELSE IF endpoint = "store"
       THEN [http_status |-> stored.http_status, memories |-> stored.memories,
             embedding_cache |-> stored.embedding_cache,
             next_uuid |-> stored.next_uuid, counters |-> guard.counters]
       ELSE IF endpoint = "query"
       THEN [http_status |-> HttpStatus(queried.status), memories |-> memories,
             embedding_cache |-> queried.embedding_cache,
             next_uuid |-> next_uuid, counters |-> guard.counters]
       ELSE [http_status |-> HttpStatus(clarified.status), memories |-> memories,
             embedding_cache |-> clarified.embedding_cache,
             next_uuid |-> next_uuid, counters |-> guard.counters]

AppEndpoints == {"store", "query", "clarify", "auto", "health", "legacy"}

AppRequest(endpoint, x_api_key, text) ==
    \E out \in {AppOutcome(endpoint, x_api_key, text)} :
       /\ memories' = out.memories
       /\ embedding_cache' = out.embedding_cache
       /\ next_uuid' = out.next_uuid
       /\ rate_limit_counters' = out.counters
       /\ app_served' =
              IF endpoint \in CoreEndpoints /\ x_api_key # NoKey
              THEN CounterSet(app_served, <<x_api_key, WindowIndex(clock)>>,
                       CounterGet(app_served, <<x_api_key, WindowIndex(clock)>>) + 1)
              ELSE app_served
       /\ app_last' = [status |-> "routed", endpoint |-> endpoint,
                       x_api_key |-> x_api_key, http_status |-> out.http_status]
       /\ UNCHANGED <<clock, api_auth_key, rate_limit_lock, rl_pc, rl_key,
                      rl_window, rl_count, rl_result, rl_decided, store_last,
                      store_prev, sessVars, q_last, c_last, extVars>>

----------------------------------------------------------------------------
(* embed_text and the embedding cache: agent/memory.py *)

EmbedTexts == {<<"a">>, <<" ", "a", " ">>, <<"b">>, <<"b", " ">>, <<"c">>,
               <<" ">>, << >>}

NormalizedText_Raw(text) == text

\* normalized_text = text.strip()
NormalizedText(text) == Strip(text)

CacheAfterProviderFailure_Placeholder(cache, normalized_text) ==
    DictPut(cache, GetTextHash(normalized_text), <<0, 0, 0, 0>>)

\* except OpenAIError: raise -- nothing is written to the cache
CacheAfterProviderFailure(cache, normalized_text) == cache

\* embed_text(text) as a function of the cache: what it returns or raises,
\* the cache it leaves behind and whether the provider was called
EmbedOutcome(cache, text, provider_ok) ==
    LET normalized_text == NormalizedText(text)
        text_hash == GetTextHash(normalized_text)
        Outcome(status, result, cache2, called) ==
            [status |-> status, result |-> result, embedding_cache |-> cache2,
             called |-> called]
    IN IF Strip(text) = << >>
       THEN Outcome("ValueError", << >>, cache, FALSE)
       ELSE IF text_hash \in DOMAIN cache
       THEN Outcome("ok", cache[text_hash], cache, FALSE)
       ELSE IF provider_ok
       THEN Outcome("ok", ProviderEmbedding(normalized_text),
                    CacheAfterEmbed(cache, normalized_text), TRUE)
       ELSE Outcome("OpenAIError", << >>,
                    CacheAfterProviderFailure(cache, normalized_text), TRUE)

\* one call of embed_text
EmbedText(text, provider_ok) ==
    \E out \in {EmbedOutcome(embedding_cache, text, provider_ok)} :
       /\ embedding_cache' = out.embedding_cache
       /\ e_last' = [status |-> out.status, text |-> text, result |-> out.result,
                     called |-> out.called, provider_ok |-> provider_ok,
                     cache_before |-> embedding_cache,
                     prev_status |-> e_last.status, prev_text |-> e_last.text,
                     flip |-> ~e_last.flip]
       /\ provider_calls' =
              IF out.called /\ out.status = "ok"
              THEN CounterSet(provider_calls, Strip(text),
                              CounterGet(provider_calls, Strip(text)) + 1)
              ELSE provider_calls
       /\ UNCHANGED <<clock, rlVars, memories, next_uuid, store_last, store_prev,
                      sessVars, q_last, c_last, app_served, app_last, fn_last, concVars,
                      mgmtVars, a_last>>

\* clear_embedding_cache(): empties the cache and returns its former size
ClearEmbeddingCache ==
    /\ embedding_cache' = << >>
    /\ e_last' = [NoEmbed EXCEPT !.status = "cleared",
                                 !.cache_before = embedding_cache,
                                 !.prev_status = e_last.status,
                                 !.prev_text = e_last.text,
                                 !.flip = ~e_last.flip]
    /\ provider_calls' = << >>
    /\ UNCHANGED <<clock, rlVars, memories, next_uuid, store_last, store_prev,
                   sessVars, q_last, c_last, app_served, app_last, fn_last, concVars,
                   mgmtVars, a_last>>

----------------------------------------------------------------------------
(* store_memory under concurrent requests: agent/memory.py *)

RaceTexts == {<<"a">>, <<" ", "a">>, <<"b">>}

\* the metadata store_memory_endpoint builds
EndpointMetadata == Dict([timestamp |-> "ts", language |-> "he", location |-> NoValue])

\* store requests begun and not yet answered
StoresInFlight == {r \in Requests : st_pc[r] # "idle"}

InsertRow_Rechecked(rows, new_row) ==
    IF FirstDuplicateFrom(rows, JsonLoads(new_row.embedding), 1) # 0
    THEN rows ELSE Append(rows, new_row)

\* INSERT INTO memories ... VALUES (...); conn.commit()
InsertRow(rows, new_row) == Append(rows, new_row)

\* request r enters store_memory: validation, then embed_text
StoreEmbed(r, text) ==
    /\ st_pc[r] = "idle"
    /\ Strip(text) # << >>
    /\ embedding_cache' = CacheAfterEmbed(embedding_cache, Strip(text))
    /\ st_local' = [st_local EXCEPT ![r] =
           [NoStore EXCEPT !.status = "running", !.text = Strip(text),
                           !.new_embedding =
                               CacheAfterEmbed(embedding_cache,
                                               Strip(text))[GetTextHash(Strip(text))]]]
    /\ st_pc' = [st_pc EXCEPT ![r] = "embedded"]
    /\ UNCHANGED <<clock, rlVars, memories, next_uuid, store_last, store_prev,
                   sessVars, q_last, c_last, app_served, app_last, fn_last, embVars,
                   sg_pc, sg_local, mgmtVars, a_last>>

\* SELECT id, text, embedding FROM memories; fetchall(); the duplicate loop
\* runs over the fetched rows
StoreScan(r) ==
    /\ st_pc[r] = "embedded"
    /\ LET dup == FirstDuplicateFrom(memories, st_local[r].new_embedding, 1)
       IN IF dup # 0
          THEN /\ st_pc' = [st_pc EXCEPT ![r] = "idle"]
               /\ st_local' = [st_local EXCEPT ![r] =
                      [@ EXCEPT !.status = "ok",
                                !.existing_memories = memories,
                                !.result =
                                    [duplicate_detected |-> TRUE,
                                     existing_memory_preview |-> memories[dup].text,
                                     similarity_score |->
                                         cosine_similarity(
                                             st_local[r].new_embedding,
                                             JsonLoads(memories[dup].embedding)),
                                     memory_id |-> memories[dup].id]]]
          ELSE /\ st_pc' = [st_pc EXCEPT ![r] = "scanned"]
               /\ st_local' = [st_local EXCEPT ![r] =
                      [@ EXCEPT !.existing_memories = memories]]
    /\ UNCHANGED <<clock, rlVars, memories, embedding_cache, next_uuid, store_last,
                   store_prev, sessVars, q_last, c_last, app_served, app_last, fn_last,
                   embVars, sg_pc, sg_local, mgmtVars, a_last>>

\* no duplicate among the fetched rows: uuid4(), INSERT, commit, return
StoreInsert(r) ==
    /\ st_pc[r] = "scanned"
    /\ next_uuid' = Uuid4(next_uuid)
    /\ memories' = InsertRow(memories,
                             NewRow(Uuid4(next_uuid), st_local[r].text,
                                    st_local[r].text, st_local[r].new_embedding,
                                    EndpointMetadata))
    /\ st_pc' = [st_pc EXCEPT ![r] = "idle"]
    /\ st_local' = [st_local EXCEPT ![r] =
           [@ EXCEPT !.status = "ok",
                     !.result = [duplicate_detected |-> FALSE,
                                 memory_id |-> Uuid4(next_uuid)]]]
    /\ UNCHANGED <<clock, rlVars, embedding_cache, store_last, store_prev,
                   sessVars, q_last, c_last, app_served, app_last, fn_last, embVars,
                   sg_pc, sg_local, mgmtVars, a_last>>

----------------------------------------------------------------------------
(* get_session_candidates under concurrent requests: agent/api/session_store.py *)

\* data = _session_store.get(session_id); if not data: return None
SessionLookup(r, session_id) ==
    /\ sg_pc[r] = "idle"
    /\ IF session_id \in DOMAIN session_store
       THEN /\ sg_pc' = [sg_pc EXCEPT ![r] = "lookup_done"]
            /\ sg_local' = [sg_local EXCEPT ![r] =
                   [NoLookup EXCEPT !.status = "running", !.session_id = session_id,
                                    !.data = Found(session_store[session_id])]]
       ELSE /\ sg_pc' = sg_pc
            /\ sg_local' = [sg_local EXCEPT ![r] =
                   [NoLookup EXCEPT !.status = "ok", !.session_id = session_id]]
    /\ UNCHANGED <<clock, rlVars, memVars, sessVars, q_last, c_last, app_served,
                   app_last, fn_last, embVars, st_pc, st_local, mgmtVars, a_last>>

\* if time.time() > data["expires"]: ... else return the candidates
SessionExpiryCheck(r) ==
    /\ sg_pc[r] = "lookup_done"
    /\ IF SessionExpired(clock, sg_local[r].data.value.expires)
       THEN /\ sg_pc' = [sg_pc EXCEPT ![r] = "expired"]
            /\ sg_local' = [sg_local EXCEPT ![r] = [@ EXCEPT !.now = clock]]
       ELSE /\ sg_pc' = [sg_pc EXCEPT ![r] = "idle"]
            /\ sg_local' = [sg_local EXCEPT ![r] =
                   [@ EXCEPT !.status = "ok", !.now = clock,
                             !.result =
                                 Found(LoadAll(sg_local[r].data.value.candidates))]]
    /\ UNCHANGED <<clock, rlVars, memVars, sessVars, q_last, c_last, app_served,
                   app_last, fn_last, embVars, st_pc, st_local, mgmtVars, a_last>>

\* del _session_store[session_id]; return None -- del raises KeyError when
\* the key is no longer in the dict
SessionDelete(r) ==
    /\ sg_pc[r] = "expired"
    /\ sg_pc' = [sg_pc EXCEPT ![r] = "idle"]
    /\ IF sg_local[r].session_id \in DOMAIN session_store
       THEN /\ session_store' = DictDel(session_store, sg_local[r].session_id)
            /\ sg_local' = [sg_local EXCEPT ![r] = [@ EXCEPT !.status = "ok"]]
       ELSE /\ session_store' = session_store
            /\ sg_local' = [sg_local EXCEPT ![r] = [@ EXCEPT !.status = "KeyError"]]
    /\ UNCHANGED <<clock, rlVars, memVars, sess_created, sess_last, q_last, c_last,
                   app_served, app_last, fn_last, embVars, st_pc, st_local, mgmtVars, a_last>>

----------------------------------------------------------------------------
(* update_memory, delete_memory and get_memory_by_id: agent/memory.py *)

\* the index of the row with this id, 0 when there is none (id is the
\* primary key)
RowOfId(rows, memory_id) ==
    IF \E j \in 1..Len(rows) : rows[j].id = memory_id
    THEN CHOOSE j \in 1..Len(rows) : rows[j].id = memory_id
    ELSE 0

UpdatedRow_KeepsEmbedding(row, normalized_text, embedding_json) ==
    [row EXCEPT !.text = normalized_text]

\* UPDATE memories SET text = ?, embedding = ? WHERE id = ?
UpdatedRow(row, normalized_text, embedding_json) ==
    [row EXCEPT !.text = normalized_text, !.embedding = embedding_json]

RowsAfterDelete_First(rows, memory_id) == Tail(rows)

\* DELETE FROM memories WHERE id = ?
RowsAfterDelete(rows, memory_id) ==
    SelectSeq(rows, LAMBDA row : row.id # memory_id)

MemoryNotFound == [success |-> FALSE, error |-> "Memory not found"]

\* update_memory(memory_id, new_text)
UpdateOutcome(rows, cache, memory_id, new_text, provider_ok, db_ok) ==
    LET normalized_text == Strip(new_text)
        hit == GetTextHash(normalized_text) \in DOMAIN cache
        cache2 == CacheAfterEmbed(cache, normalized_text)
        new_embedding == cache2[GetTextHash(normalized_text)]
        j == RowOfId(rows, memory_id)
        Outcome(status, result, rows2, cache3) ==
            [status |-> status, result |-> result, memories |-> rows2,
             embedding_cache |-> cache3]
    IN IF memory_id = BlankId \/ normalized_text = << >>
       THEN Outcome("ValueError", Raised, rows, cache)
       ELSE IF ~db_ok
       THEN Outcome("sqlite3.Error", Raised, rows, cache)
       ELSE IF j = 0
       THEN Outcome("ok", MemoryNotFound, rows, cache)
       ELSE IF ~hit /\ ~provider_ok
       THEN Outcome("OpenAIError", Raised, rows, cache)
       ELSE Outcome("ok",
                    [success |-> TRUE, before |-> rows[j].text,
                     after |-> normalized_text],
                    [rows EXCEPT ![j] = UpdatedRow(rows[j], normalized_text,
                                                   JsonDumps(new_embedding))],
                    cache2)

\* delete_memory(memory_id)
DeleteOutcome(rows, memory_id, db_ok) ==
    LET j == RowOfId(rows, memory_id)
        Outcome(status, result, rows2) ==
            [status |-> status, result |-> result, memories |-> rows2]
    IN IF memory_id = BlankId
       THEN Outcome("ValueError", Raised, rows)
       ELSE IF ~db_ok
       THEN Outcome("sqlite3.Error", Raised, rows)
       ELSE IF j = 0
       THEN Outcome("ok", MemoryNotFound, rows)
       ELSE Outcome("ok", [success |-> TRUE, deleted_text |-> rows[j].text],
                    RowsAfterDelete(rows, memory_id))

ManageTexts == {<<" ", "c">>, <<" ">>}

\* ids callers ask for: blank, the ids of stored rows, and one never issued
ManageIds == 0..(MaxManageRows + 1)

\* one call of update_memory
UpdateMemory(memory_id, new_text, provider_ok, db_ok) ==
    \E out \in {UpdateOutcome(memories, embedding_cache, memory_id, new_text,
                              provider_ok, db_ok)} :
       /\ memories' = out.memories
       /\ embedding_cache' = out.embedding_cache
       /\ m_last' = [op |-> "update", status |-> out.status,
                     memory_id |-> memory_id, new_text |-> new_text,
                     result |-> out.result]
       /\ UNCHANGED <<clock, rlVars, next_uuid, store_last, store_prev, sessVars,
                      q_last, c_last, app_served, app_last, fn_last, embVars, concVars,
                      deleted_ids, a_last>>

\* one call of delete_memory
DeleteMemory(memory_id, db_ok) ==
    \E out \in {DeleteOutcome(memories, memory_id, db_ok)} :
       /\ memories' = out.memories
       /\ m_last' = [op |-> "delete", status |-> out.status,
                     memory_id |-> memory_id, new_text |-> << >>,
                     result |-> out.result]
       /\ deleted_ids' = IF out.status = "ok" /\ out.result.success
                         THEN deleted_ids \cup {memory_id} ELSE deleted_ids
       /\ UNCHANGED <<clock, rlVars, embedding_cache, next_uuid, store_last,
                      store_prev, sessVars, q_last, c_last, app_served, app_last, fn_last,
                      embVars, concVars, a_last>>

\* one call of get_memory_by_id
GetMemoryByIdCall(memory_id) ==
    /\ m_last' = [op |-> "get", status |-> IF memory_id = BlankId
                                           THEN "ValueError" ELSE "ok",
                  memory_id |-> memory_id, new_text |-> << >>,
                  result |-> IF memory_id = BlankId THEN Raised
                             ELSE GetMemoryById(memories, memory_id)]
    /\ UNCHANGED <<clock, rlVars, memVars, sessVars, q_last, c_last, app_served,
                   app_last, fn_last, embVars, concVars, deleted_ids, a_last>>

----------------------------------------------------------------------------
(* The auto flow: agent/api/auto.py *)

\* confidences are counted in hundredths: 0.70 is 70
llm_decider_confidence_min == 70

\* query_memory(decision["normalized_text"], top_k=5)
AUTO_TOP_K == 5

\* JSON values of the "confidence" field: a number, null, or a string that
\* float() cannot read
Number(n) == [type |-> "number", value |-> n]

JsonNull == [type |-> "null", value |-> 0]

JsonWord == [type |-> "string", value |-> 0]

\* what the LLM call gives: a JSON object with some of the fields, a text
\* that is not JSON, or an OpenAIError
LlmObject(action, confidence, language, reason) ==
    [kind |-> "object", action |-> action, confidence |-> confidence,
     language |-> language, reason |-> reason]

LlmInvalidJson == [LlmObject(Absent, Absent, Absent, Absent) EXCEPT !.kind = "invalid_json"]

LlmError == [LlmObject(Absent, Absent, Absent, Absent) EXCEPT !.kind = "error"]

LlmDecides(action, hundredths) ==
    LlmObject(Given(action), Given(Number(hundredths)), Given("he"), Given("r"))

LlmOutputs ==
    {LlmDecides("store", 100), LlmDecides("store", 70), LlmDecides("retrieve", 90),
     LlmDecides("clarify", 100), LlmDecides("store", 69), LlmDecides("retrieve", 0),
     LlmDecides("delete", 100), LlmDecides("store", 101), LlmDecides("retrieve", -1),
     LlmObject(Absent, Given(Number(100)), Given("he"), Given("r")),
     LlmObject(Given("store"), Absent, Given("he"), Given("r")),
     LlmObject(Given("store"), Given(Number(100)), Absent, Given("r")),
     LlmObject(Given("retrieve"), Given(Number(100)), Given("he"), Absent),
     LlmObject(Given("store"), Given(JsonNull), Given("he"), Given("r")),
     LlmObject(Given("store"), Given(JsonWord), Given("he"), Given("r")),
     LlmInvalidJson, LlmError}

required_fields == {"action", "confidence", "language", "reason"}

\* if decision["action"] not in ["store", "retrieve", "clarify"]
ValidActions == {"store", "retrieve", "clarify"}

\* the decision the two except branches return
FallbackDecision(reason, text) ==
    [action |-> "clarify", confidence |-> 0, language |-> "en", reason |-> reason,
     normalized_text |-> Strip(text)]

LowConfidence_Never(confidence) == FALSE

\* if decision["confidence"] < app_settings.llm_decider_confidence_min
LowConfidence(confidence) == confidence < llm_decider_confidence_min

\* classify_user_intent(text, app_settings), given what the LLM answers
ClassifyUserIntent(text, llm) ==
    LET Decided(decision) == [status |-> "ok", decision |-> decision]
        invalid == FallbackDecision("LLM decision format validation failed", text)
    IN IF llm.kind = "error"
       THEN [status |-> "OpenAIError", decision |-> invalid]
       ELSE IF llm.kind = "invalid_json"
       THEN Decided(FallbackDecision("LLM returned invalid JSON format", text))
       ELSE IF \E field \in required_fields : ~llm[field].given
       THEN Decided(invalid)
       ELSE IF llm.action.value \notin ValidActions
       THEN Decided(invalid)
       ELSE IF llm.confidence.value.type = "null"
       THEN \* float(None) raises TypeError, which no except branch catches
            [status |-> "TypeError", decision |-> invalid]
       ELSE IF llm.confidence.value.type = "string"
       THEN Decided(invalid)
       ELSE IF ~(0 <= llm.confidence.value.value /\ llm.confidence.value.value <= 100)
       THEN Decided(invalid)
       ELSE Decided([action |-> llm.action.value,
                     confidence |-> llm.confidence.value.value,
                     language |-> llm.language.value,
                     reason |-> llm.reason.value,
                     normalized_text |-> Strip(text)])

NoResult == [kind |-> "none"]

UsesForceAction_Never(force_action) == FALSE

\* if request.force_action: a given "store" or "retrieve" skips the classifier
UsesForceAction(force_action) == force_action.given

\* auto_endpoint: the outcome and what it leaves behind
AutoOutcome(rows, cache, uuid_count, text, force_action, llm, provider_ok) ==
    LET classified == ClassifyUserIntent(text, llm)
        decision ==
            IF UsesForceAction(force_action)
            THEN [action |-> force_action.value, confidence |-> 100,
                  language |-> "unknown",
                  reason |-> "User forced action", normalized_text |-> Strip(text)]
            ELSE IF LowConfidence(classified.decision.confidence)
            THEN [classified.decision EXCEPT !.action = "clarify",
                                             !.reason = "Low confidence"]
            ELSE classified.decision
        final_action == decision.action
        language == IF decision.language \in {"unknown", "mixed"} THEN "en"
                    ELSE decision.language
        metadata == Dict([timestamp |-> "ts", language |-> language,
                          location |-> NoValue])
        stored == StoreOutcome(rows, cache, uuid_count, decision.normalized_text,
                               metadata, provider_ok, TRUE)
        hit == GetTextHash(decision.normalized_text) \in DOMAIN cache
        cache2 == CacheAfterEmbed(cache, decision.normalized_text)
        Outcome(status, http_status, result, executed, provider_failed, rows2,
                cache3, count2) ==
            [status |-> status, http_status |-> http_status,
             action |-> final_action, decision |-> decision, result |-> result,
             executed |-> executed, provider_failed |-> provider_failed,
             memories |-> rows2, embedding_cache |-> cache3, next_uuid |-> count2]
        Failed(status) ==
            [status |-> status, http_status |-> HttpStatus(status),
             action |-> "none", decision |-> classified.decision,
             result |-> NoResult, executed |-> "none", provider_failed |-> FALSE,
             memories |-> rows, embedding_cache |-> cache, next_uuid |-> uuid_count]
    IN IF text = << >> THEN Failed("RequestValidationError")
       ELSE IF Strip(text) = << >> THEN Failed("InvalidInputError")
       ELSE IF ~UsesForceAction(force_action) /\ classified.status = "OpenAIError"
       THEN Failed("OpenAIServiceError")
       ELSE IF ~UsesForceAction(force_action) /\ classified.status # "ok"
       THEN Failed("MemoryServiceError")
       ELSE IF final_action = "store"
       THEN IF stored.status = "ok"
            THEN Outcome("ok", 201,
                         [kind |-> "store",
                          duplicate_detected |-> stored.result.duplicate_detected,
                          memory_id |-> stored.result.memory_id],
                         "store", FALSE, stored.memories, stored.embedding_cache,
                         stored.next_uuid)
            ELSE \* except Exception: raise MemoryServiceError(..., 500)
                 Outcome("MemoryServiceError", 500, NoResult, "store",
                         stored.status = "OpenAIError", stored.memories,
                         stored.embedding_cache, stored.next_uuid)
       ELSE IF final_action = "retrieve"
       THEN IF ~hit /\ ~provider_ok
            THEN Outcome("MemoryServiceError", 500, NoResult, "query", TRUE,
                         rows, cache, uuid_count)
            ELSE Outcome("ok", 200,
                         [kind |-> "retrieve",
                          candidates |->
                              QueryMemory(rows, cache2[GetTextHash(
                                              decision.normalized_text)],
                                          AUTO_TOP_K)],
                         "query", FALSE, rows, cache2, uuid_count)
       ELSE Outcome("ok", 200, NoResult, "none", FALSE, rows, cache, uuid_count)

AutoTexts == {<<"a">>, <<" ", "c">>, <<" ">>}

ForceActions == {Absent, Given("store"), Given("retrieve")}

\* one call of auto_endpoint
AutoEndpoint(text, force_action, llm, provider_ok) ==
    \E out \in {AutoOutcome(memories, embedding_cache, next_uuid, text,
                            force_action, llm, provider_ok)} :
       /\ memories' = out.memories
       /\ embedding_cache' = out.embedding_cache
       /\ next_uuid' = out.next_uuid
       /\ a_last' = [endpoint |-> "auto", status |-> out.status,
                     http_status |-> out.http_status, text |-> text,
                     memory_id |-> BlankId, force_action |-> force_action,
                     llm |-> llm, provider_ok |-> provider_ok,
                     provider_failed |-> out.provider_failed,
                     action |-> out.action, executed |-> out.executed,
                     result |-> out.result]
       /\ UNCHANGED <<clock, rlVars, store_last, store_prev, sessVars, q_last,
                      c_last, app_served, app_last, fn_last, embVars, concVars, mgmtVars>>

----------------------------------------------------------------------------
(* The store and update endpoints: agent/api/store.py, agent/api/update.py *)

\* one call of store_memory_endpoint
StoreEndpoint(text, provider_ok) ==
    \E out \in {StoreEndpointOutcome(memories, embedding_cache, next_uuid, text,
                                     provider_ok)} :
       /\ memories' = out.memories
       /\ embedding_cache' = out.embedding_cache
       /\ next_uuid' = out.next_uuid
       /\ a_last' = [endpoint |-> "store", status |-> out.status,
                     http_status |-> out.http_status, text |-> text,
                     memory_id |-> BlankId, force_action |-> Absent,
                     llm |-> LlmError, provider_ok |-> provider_ok,
                     provider_failed |-> out.status = "OpenAIServiceError",
                     action |-> "store", executed |-> "store",
                     result |-> NoResult]
       /\ UNCHANGED <<clock, rlVars, store_last, store_prev, sessVars, q_last,
                      c_last, app_served, app_last, fn_last, embVars, concVars, mgmtVars>>

\* update_memory_endpoint: the outcome and what it leaves behind
UpdateEndpointOutcome(rows, cache, memory_id, new_text, provider_ok) ==
    LET out == UpdateOutcome(rows, cache, memory_id, Strip(new_text),
                             provider_ok, TRUE)
        status == IF new_text = << >> THEN "RequestValidationError"
                  ELSE IF memory_id = BlankId \/ Strip(new_text) = << >>
                  THEN "InvalidInputError"
                  ELSE IF out.status = "OpenAIError" THEN "OpenAIServiceError"
                  ELSE IF out.status = "sqlite3.Error" THEN "DatabaseError"
                  ELSE IF out.status # "ok" THEN "MemoryServiceError"
                  ELSE IF ~out.result.success THEN "MemoryNotFoundError"
                  ELSE "ok"
    IN [status |-> status, http_status |-> HttpStatus(status),
        provider_failed |-> status = "OpenAIServiceError",
        memories |-> out.memories, embedding_cache |-> out.embedding_cache]

\* one call of update_memory_endpoint
UpdateEndpoint(memory_id, new_text, provider_ok) ==
    \E out \in {UpdateEndpointOutcome(memories, embedding_cache, memory_id,
                                      new_text, provider_ok)} :
       /\ memories' = out.memories
       /\ embedding_cache' = out.embedding_cache
       /\ a_last' = [endpoint |-> "update", status |-> out.status,
                     http_status |-> out.http_status, text |-> new_text,
                     memory_id |-> memory_id, force_action |-> Absent,
                     llm |-> LlmError, provider_ok |-> provider_ok,
                     provider_failed |-> out.provider_failed,
                     action |-> "update", executed |-> "update",
                     result |-> NoResult]
       /\ UNCHANGED <<clock, rlVars, next_uuid, store_last, store_prev, sessVars,
                      q_last, c_last, app_served, app_last, fn_last, embVars, concVars,
                      mgmtVars>>

ProviderTexts == {<<"a">>, <<"c">>}

----------------------------------------------------------------------------
(* The clarification question: agent/api/query.py *)

\* str.isupper() on the first character of a word
IsUpper(ch) == ch \in {"A", "C", "D", "W"}

\* str.split(): the maximal runs of characters that are not whitespace, in order
RECURSIVE SplitFrom(_, _)
SplitFrom(text, current) ==
    IF text = << >> THEN (IF current = << >> THEN << >> ELSE <<current>>)
    ELSE IF IsSpace(Head(text))
         THEN (IF current = << >> THEN << >> ELSE <<current>>)
                 \o SplitFrom(Tail(text), << >>)
         ELSE SplitFrom(Tail(text), Append(current, Head(text)))

Split(text) == SplitFrom(text, << >>)

\* str.lstrip(chars), str.rstrip(chars) and str.strip(chars): chars is a SET
\* of characters, each removed from the end for as long as one is there
RECURSIVE LStripChars(_, _)
LStripChars(word, chars) ==
    IF word # << >> /\ Head(word) \in chars THEN LStripChars(Tail(word), chars)
    ELSE word

RECURSIVE RStripChars(_, _)
RStripChars(word, chars) ==
    IF word # << >> /\ word[Len(word)] \in chars
    THEN RStripChars(SubSeq(word, 1, Len(word) - 1), chars)
    ELSE word

StripChars(word, chars) == RStripChars(LStripChars(word, chars), chars)

\* the operator in on two strings: needle occurs in hay as a substring
Contains(needle, hay) ==
    \E i \in 0..Len(hay) :
       /\ i + Len(needle) <= Len(hay)
       /\ SubSeq(hay, i + 1, i + Len(needle)) = needle

\* '.,!?'
SentencePunctuation == {".", ",", "!", "?"}

\* "'s" given to rstrip
PossessiveChars == {"'", "s"}

\* ".,!?'\""
QuotePunctuation == {".", ",", "!", "?", "'", "\""}

\* the question words skipped even if capitalized
question_words ==
    {<<"w", "h", "a", "t">>,
     <<"w", "h", "e", "r", "e">>,
     <<"w", "h", "e", "n">>,
     <<"w", "h", "o">>,
     <<"h", "o", "w">>,
     <<"w", "h", "i", "c", "h">>,
     <<"w", "h", "y">>}

common_words ==
    {<<"c", "o", "d", "e">>,
     <<"w", "h", "a", "t">>,
     <<"w", "h", "e", "r", "e">>,
     <<"w", "h", "e", "n">>,
     <<"w", "h", "o">>,
     <<"h", "o", "w">>,
     <<"t", "h", "e">>,
     <<"a", "n", "d">>,
     <<"f", "o", "r">>,
     <<"w", "i", "t", "h">>}

\* sum(1 for candidate in top_candidates if word in candidate.text.lower())
CandidateMatches(word, top_candidates) ==
    Cardinality({i \in 1..Len(top_candidates) :
                    Contains(word, Lower(top_candidates[i].text))})

\* word.lower().rstrip("'s").strip(".,!?'\"")
NormalizedWord(word) ==
    StripChars(RStripChars(Lower(word), PossessiveChars), QuotePunctuation)

\* word.rstrip("'s").strip(".,!?'\"")
OriginalWord(word) ==
    StripChars(RStripChars(word, PossessiveChars), QuotePunctuation)

\* list comprehension [f(x) for x in s]
MapSeq(f(_), s) == [i \in 1..Len(s) |-> f(s[i])]

StripSentence(word) == StripChars(word, SentencePunctuation)

LowerStripSentence(word) == Lower(StripSentence(word))

\* the two wordings of the question
Mentioning(subject) == [wording |-> "mentioning", subject |-> subject]

MultipleMatching == [wording |-> "multiple matching entries"]

\* subject = proper_noun_subjects[0] and subject = ambiguous_subjects[0]
FirstFound_Longest(subjects) ==
    CHOOSE s \in {subjects[i] : i \in 1..Len(subjects)} :
       \A i \in 1..Len(subjects) : Len(subjects[i]) <= Len(s)
FirstFound(subjects) == subjects[1]

\* _generate_clarification_question
GenerateClarificationQuestion(query, top_candidates) ==
    LET query_words == Split(query)
        capitalized_words ==
            MapSeq(StripSentence,
                   SelectSeq(query_words, LAMBDA word : IsUpper(word[1])))
        matched_capitalized ==
            SelectSeq(capitalized_words,
                      LAMBDA word :
                         /\ Lower(word) \notin question_words
                         /\ CandidateMatches(NormalizedWord(word),
                                             top_candidates) >= 2)
        proper_noun_subjects == MapSeq(OriginalWord, matched_capitalized)
        longer_words ==
            MapSeq(LowerStripSentence,
                   SelectSeq(query_words,
                             LAMBDA word : /\ Len(word) > 3
                                           /\ Lower(word) \notin common_words))
        ambiguous_subjects ==
            SelectSeq(longer_words,
                      LAMBDA word : CandidateMatches(word, top_candidates) >= 2)
    IN IF proper_noun_subjects # << >>
       THEN Mentioning(FirstFound(proper_noun_subjects))
       ELSE IF ambiguous_subjects # << >>
            THEN Mentioning(FirstFound(ambiguous_subjects))
            ELSE MultipleMatching

\* the words queries are made of
QueryVocabulary ==
    {<<"W", "h", "a", "t">>,
     <<"D", "a", "l", "i", "a", "'", "s">>,
     <<"c", "o", "d", "e", "?">>,
     <<"b", "l", "u", "e">>,
     <<"e", "l", "e", "p", "h", "a", "n", "t">>,
     <<"c", "a", "t">>,
     <<"C", "a", "t", "s">>}

RECURSIVE JoinWords(_)
JoinWords(words) ==
    IF Len(words) = 1 THEN words[1]
    ELSE words[1] \o <<" ">> \o JoinWords(Tail(words))

\* the queries: up to MaxQueryWords words separated by single spaces
QuestionQueries ==
    {JoinWords(words) :
        words \in UNION {[1..n -> QueryVocabulary] : n \in 1..MaxQueryWords}}

\* the texts of stored records that come back as the two best candidates
CandidateTexts ==
    {<<"C", "o", "d", "e", " ", "f", "o", "r", " ", "D", "a", "l", "i", "a">>,
     <<"A", "u", "n", "t", " ", "D", "a", "l", "i", "a", " ", "b", "l", "u", "e", " ", "e", "l", "e", "p", "h", "a", "n", "t", " ", "c", "a", "t">>,
     <<"b", "l", "u", "e", " ", "e", "l", "e", "p", "h", "a", "n", "t">>,
     <<"c", "o", "d", "e", " ", "c", "a", "t">>}

\* memory_candidates[:2] of a query that needs clarification
TopCandidates(text1, text2) ==
    <<MemoryCandidate([memory_id |-> 1, text |-> text1, similarity_score |-> 280]),
      MemoryCandidate([memory_id |-> 2, text |-> text2, similarity_score |-> 280])>>

\* one call of _generate_clarification_question
ClarificationQuestion(query, text1, text2) ==
    /\ fn_last' = [status |-> "returned", fn |-> "_generate_clarification_question",
                   query |-> query, top_candidates |-> TopCandidates(text1, text2),
                   result |-> GenerateClarificationQuestion(
                                 query, TopCandidates(text1, text2))]
    /\ UNCHANGED <<clock, rlVars, memVars, sessVars, q_last, c_last, app_served,
                   app_last, embVars, concVars, mgmtVars, a_last>>

----------------------------------------------------------------------------
(* handle_cancel_endpoint: agent/api/cancel.py *)

\* the field CancelRequest declares (agent/api/models.py)
CancelRequestFields == {"last_input_text"}

\* best_match["similarity_score"] > 0.7
CANCEL_SIMILARITY == (70 * SCORE_SCALE) \div 100

\* the try block of the handler, given the value of request.last_input
CancelBody(rows, cache, last_input, provider_ok) ==
    LET normalized == Strip(last_input)
        hit == GetTextHash(normalized) \in DOMAIN cache
        cache2 == CacheAfterEmbed(cache, normalized)
        candidates == QueryMemory(rows, cache2[GetTextHash(normalized)], 1)
        Outcome(status, target, confirmation, cache3) ==
            [status |-> status, target_memory_id |-> target,
             confirmation_text |-> confirmation, embedding_cache |-> cache3]
    IN IF normalized = << >>
       THEN Outcome("InvalidInputError", Absent, "none", cache)
       ELSE IF ~hit /\ ~provider_ok
       THEN Outcome("OpenAIServiceError", Absent, "none", cache)
       ELSE IF candidates = << >>
       THEN Outcome("ok", Absent, "Nothing to cancel", cache2)
       ELSE IF candidates[1].similarity_score > CANCEL_SIMILARITY
       THEN Outcome("ok", Given(candidates[1].memory_id), "Do you mean to cancel",
                    cache2)
       ELSE Outcome("ok", Absent, "No clear match found", cache2)

\* handle_cancel_endpoint(request): pydantic's validation of the body against
\* CancelRequest, the logger.info call ahead of the try block, which reads
\* request.last_input, then the try block
CancelOutcome(rows, cache, body, provider_ok) ==
    IF ~body.last_input_text.given \/ body.last_input_text.value = << >>
    THEN [status |-> "RequestValidationError", target_memory_id |-> Absent,
          confirmation_text |-> "none", embedding_cache |-> cache]
    ELSE IF "last_input" \notin CancelRequestFields
    THEN [status |-> "AttributeError", target_memory_id |-> Absent,
          confirmation_text |-> "none", embedding_cache |-> cache]
    ELSE CancelBody(rows, cache, body.last_input_text.value, provider_ok)

\* the request bodies sent to POST /api/v1/cancel
CancelBodies ==
    [last_input_text : {Absent, Given(<<"a">>), Given(<<"q", " ">>), Given(<<" ">>)}]

\* one call of handle_cancel_endpoint
CancelEndpoint(body, provider_ok) ==
    \E out \in {CancelOutcome(memories, embedding_cache, body, provider_ok)} :
       /\ embedding_cache' = out.embedding_cache
       /\ a_last' = [endpoint |-> "cancel", status |-> out.status,
                     http_status |-> HttpStatus(out.status), body |-> body,
                     provider_ok |-> provider_ok,
                     target_memory_id |-> out.target_memory_id,
                     confirmation_text |-> out.confirmation_text]
       /\ UNCHANGED <<clock, rlVars, memories, next_uuid, store_last, store_prev,
                      sessVars, q_last, c_last, app_served, app_last, fn_last,
                      embVars, concVars, mgmtVars>>

----------------------------------------------------------------------------
(* api_key_guard: agent/security.py *)

\* allowed = {k.strip() for k in raw.split(",") if k.strip()}: the settings
\* of the model configure at most one key
AllowedKeys(raw) == IF raw = NoKey THEN {} ELSE {raw}

\* api_key_guard(x_api_key): passes, or raises HTTPException(401)
ApiKeyGuard(raw, x_api_key) ==
    IF raw = NoKey THEN "pass"
    ELSE IF x_api_key = NoKey \/ x_api_key \notin AllowedKeys(raw) THEN "401"
    ELSE "pass"

----------------------------------------------------------------------------
(* cosine_similarity and its errors: agent/memory.py *)

CosineError_LengthFirst(a, b) ==
    IF Len(a) # Len(b) THEN "Vector dimensions must match"
    ELSE IF a = << >> \/ b = << >> THEN "Embedding vectors cannot be empty"
    ELSE "none"

\* the two raise statements ahead of the computation, in the order of the code
CosineError(a, b) ==
    IF a = << >> \/ b = << >> THEN "Embedding vectors cannot be empty"
    ELSE IF Len(a) # Len(b) THEN "Vector dimensions must match"
    ELSE "none"

\* cosine_similarity(a, b): the ValueError it raises or the float it returns
CosineSimilarityOutcome(a, b) ==
    IF CosineError(a, b) # "none"
    THEN [status |-> "ValueError", error |-> CosineError(a, b)]
    ELSE [status |-> "ok", value |-> cosine_similarity(a, b)]

\* the components of the vectors given to cosine_similarity
VectorComponents == {0, 3, 4}

\* the vectors: every list of at most MaxDimension components
CosineVectors == UNION {[1..n -> VectorComponents] : n \in 0..MaxDimension}

\* one call of cosine_similarity
CosineSimilarityCall(a, b) ==
    /\ fn_last' = [status |-> "returned", fn |-> "cosine_similarity",
                   a |-> a, b |-> b, result |-> CosineSimilarityOutcome(a, b)]
    /\ UNCHANGED <<clock, rlVars, memVars, sessVars, q_last, c_last, app_served,
                   app_last, embVars, concVars, mgmtVars, a_last>>

----------------------------------------------------------------------------
(* Specifications *)

RateInit ==
    /\ clock = 0
    /\ MemInit
    /\ SessInit
    /\ api_auth_key \in {NoKey, "A"}
    /\ rate_limit_counters = << >>
    /\ rate_limit_lock = "free"
    /\ rl_pc = [t \in Threads |-> "idle"]
    /\ rl_key = [t \in Threads |-> NoKey]
    /\ rl_window = [t \in Threads |-> 0]
    /\ rl_count = [t \in Threads |-> 0]
    /\ rl_result = [t \in Threads |-> "none"]
    /\ rl_decided = << >>

RateNext ==
    \/ \E t \in Threads, k \in ApiKeys \cup {NoKey} :
          /\ CallsStarted(rl_decided, rl_pc) < MaxCalls
          /\ RateGuardEnter(t, k)
    \/ \E t \in Threads : RateGuardAcquire(t)
    \/ \E t \in Threads : RateGuardRead(t)
    \/ \E t \in Threads : RateGuardCheck(t)
    \/ RateTick

SpecRate == RateInit /\ [][RateNext]_vars

\* one key's requests on both sides of a window boundary: the clock starts
\* one second before the end of window 0
BurstInit ==
    /\ clock = rate_limit_window_seconds - 1
    /\ MemInit
    /\ SessInit
    /\ api_auth_key = "A"
    /\ rate_limit_counters = << >>
    /\ rate_limit_lock = "free"
    /\ rl_pc = [t \in Threads |-> "idle"]
    /\ rl_key = [t \in Threads |-> NoKey]
    /\ rl_window = [t \in Threads |-> 0]
    /\ rl_count = [t \in Threads |-> 0]
    /\ rl_result = [t \in Threads |-> "none"]
    /\ rl_decided = << >>

BurstNext ==
    \/ \E t \in Threads :
          /\ CallsStarted(rl_decided, rl_pc) < MaxBurstCalls
          /\ RateGuardEnter(t, "A")
    \/ \E t \in Threads : RateGuardAcquire(t)
    \/ \E t \in Threads : RateGuardRead(t)
    \/ \E t \in Threads : RateGuardCheck(t)
    \/ RateTick

SpecBurst == BurstInit /\ [][BurstNext]_vars

\* the other specifications start with the rate limiter at rest
RateAtRest ==
    /\ api_auth_key = NoKey
    /\ rate_limit_counters = << >>
    /\ rate_limit_lock = "free"
    /\ rl_pc = [t \in Threads |-> "idle"]
    /\ rl_key = [t \in Threads |-> NoKey]
    /\ rl_window = [t \in Threads |-> 0]
    /\ rl_count = [t \in Threads |-> 0]
    /\ rl_result = [t \in Threads |-> "none"]
    /\ rl_decided = << >>

RestInit ==
    /\ clock = 0
    /\ MemInit
    /\ SessInit
    /\ RateAtRest

StoreNext ==
    \E text \in StoreTexts, metadata \in Metadatas, provider_ok \in BOOLEAN,
       db_ok \in BOOLEAN : StoreMemory(text, metadata, provider_ok, db_ok)

SpecStore == RestInit /\ [][StoreNext]_vars

SessionNext ==
    \/ \E candidates \in CandidateLists : CreateSession(candidates)
    \/ \E session_id \in 1..(MaxSessions + 1) : GetSessionCandidates(session_id)
    \/ SessionTick

SpecSession == RestInit /\ [][SessionNext]_vars

\* the store contents queries run against: what successful store_memory
\* calls leave behind, for every sequence of at most MaxHistory texts
HistoryTexts == {<<"a">>, <<"b">>, <<"c">>, <<"d", " ">>}

StoreHistories == UNION {[1..n -> HistoryTexts] : n \in 0..MaxHistory}

RECURSIVE ReplayStores(_)
ReplayStores(texts) ==
    IF texts = << >>
    THEN [memories |-> << >>, embedding_cache |-> << >>, next_uuid |-> 0]
    ELSE LET s == ReplayStores(SubSeq(texts, 1, Len(texts) - 1))
             out == StoreOutcome(s.memories, s.embedding_cache, s.next_uuid,
                                 texts[Len(texts)], Dict([timestamp |-> "ts"]), TRUE, TRUE)
         IN [memories |-> out.memories, embedding_cache |-> out.embedding_cache,
             next_uuid |-> out.next_uuid]

QueryInit ==
    /\ clock = 0
    /\ \E texts \in StoreHistories :
          /\ memories = ReplayStores(texts).memories
          /\ embedding_cache = ReplayStores(texts).embedding_cache
          /\ next_uuid = ReplayStores(texts).next_uuid
    /\ store_last = NoCall
    /\ store_prev = NoCall
    /\ q_last = NoCall
    /\ c_last = NoCall
    /\ app_served = << >>
    /\ app_last = NoCall
    /\ ExtInit
    /\ SessInit
    /\ RateAtRest

QueryNext ==
    \E query \in QueryTexts, top_k \in 1..MaxTopK, provider_ok \in BOOLEAN :
       QueryEndpoint(query, top_k, provider_ok)

SpecQuery == QueryInit /\ [][QueryNext]_vars

ClarifyNext ==
    \E body \in ClarifyBodies, provider_ok \in BOOLEAN :
       ClarifyEndpoint(body, provider_ok)

SpecClarify == QueryInit /\ [][ClarifyNext]_vars

\* the application with an API key configured
AppInit ==
    /\ clock = 0
    /\ MemInit
    /\ SessInit
    /\ api_auth_key = "A"
    /\ rate_limit_counters = << >>
    /\ rate_limit_lock = "free"
    /\ rl_pc = [t \in Threads |-> "idle"]
    /\ rl_key = [t \in Threads |-> NoKey]
    /\ rl_window = [t \in Threads |-> 0]
    /\ rl_count = [t \in Threads |-> 0]
    /\ rl_result = [t \in Threads |-> "none"]
    /\ rl_decided = << >>

RequestsServed(served) ==
    LET RECURSIVE Sum(_)
        Sum(S) == IF S = {} THEN 0
                  ELSE LET k == CHOOSE x \in S : TRUE
                       IN served[k] + Sum(S \ {k})
    IN Sum(DOMAIN served)

AppNext ==
    \/ \E endpoint \in AppEndpoints, x_api_key \in {"A", NoKey}, text \in AppTexts :
          /\ RequestsServed(app_served) < MaxAppRequests
          /\ AppRequest(endpoint, x_api_key, text)
    \/ RateTick

SpecApp == AppInit /\ [][AppNext]_vars

EmbedNext ==
    \/ \E text \in EmbedTexts, provider_ok \in BOOLEAN : EmbedText(text, provider_ok)
    \/ ClearEmbeddingCache

SpecEmbed == RestInit /\ [][EmbedNext]_vars

StoreRaceNext ==
    \/ \E r \in Requests, text \in RaceTexts :
          /\ Len(memories) + Cardinality(StoresInFlight) < MaxRaceRows
          /\ StoreEmbed(r, text)
    \/ \E r \in Requests : StoreScan(r)
    \/ \E r \in Requests : StoreInsert(r)

SpecStoreRace == RestInit /\ [][StoreRaceNext]_vars

SessionRaceNext ==
    \/ \E candidates \in CandidateLists : CreateSession(candidates)
    \/ \E r \in Requests, session_id \in 1..(MaxSessions + 1) :
          SessionLookup(r, session_id)
    \/ \E r \in Requests : SessionExpiryCheck(r)
    \/ \E r \in Requests : SessionDelete(r)
    \/ SessionTick

SpecSessionRace == RestInit /\ [][SessionRaceNext]_vars

ManageNext ==
    \/ \E memory_id \in ManageIds, new_text \in ManageTexts,
          provider_ok \in BOOLEAN, db_ok \in BOOLEAN :
          UpdateMemory(memory_id, new_text, provider_ok, db_ok)
    \/ \E memory_id \in ManageIds, db_ok \in BOOLEAN : DeleteMemory(memory_id, db_ok)
    \/ \E memory_id \in ManageIds : GetMemoryByIdCall(memory_id)
    \/ QueryEndpoint(<<"a">>, MaxTopK, TRUE)

\* the tables update and delete run against: what successful stores of at
\* most MaxManageRows texts leave behind
ManageHistories == {texts \in StoreHistories : Len(texts) <= MaxManageRows}

ManageInit ==
    /\ QueryInit
    /\ \E texts \in ManageHistories : memories = ReplayStores(texts).memories

SpecManage == ManageInit /\ [][ManageNext]_vars

\* with force_action the LLM is not asked
AutoNext ==
    \/ \E text \in AutoTexts, llm \in LlmOutputs, provider_ok \in BOOLEAN :
          AutoEndpoint(text, Absent, llm, provider_ok)
    \/ \E text \in AutoTexts, force_action \in ForceActions \ {Absent},
          provider_ok \in BOOLEAN :
          AutoEndpoint(text, force_action, LlmError, provider_ok)

SpecAuto == RestInit /\ [][AutoNext]_vars

\* every operation that asks the embedding provider, the provider answering
\* or failing
ProviderNext ==
    \/ \E text \in ProviderTexts, provider_ok \in BOOLEAN :
          StoreEndpoint(text, provider_ok)
    \/ \E text \in ProviderTexts, provider_ok \in BOOLEAN :
          QueryEndpoint(text, MaxTopK, provider_ok)
    \/ \E memory_id \in {1, 2}, text \in ProviderTexts, provider_ok \in BOOLEAN :
          UpdateEndpoint(memory_id, text, provider_ok)
    \/ \E text \in ProviderTexts, provider_ok \in BOOLEAN :
          AutoEndpoint(text, Absent, LlmDecides("store", 100), provider_ok)
    \/ \E text \in ProviderTexts, provider_ok \in BOOLEAN :
          AutoEndpoint(text, Given("retrieve"), LlmError, provider_ok)

SpecProvider == RestInit /\ [][ProviderNext]_vars

\* one call of _generate_clarification_question per behaviour, on each of the
\* queries and candidates: the function reads and writes no state
QuestionNext ==
    /\ fn_last.status = "none"
    /\ \E query \in QuestionQueries, text1 \in CandidateTexts, text2 \in CandidateTexts :
          ClarificationQuestion(query, text1, text2)

SpecQuestion == RestInit /\ [][QuestionNext]_vars

\* the texts stored and written by update in the life of a table
LifecycleTexts == {<<"a">>, <<" ", "c">>}

\* the ids update and delete are called with: one more than can exist
LifecycleIds == 1..(MaxLifecycleIds + 1)

\* sequential calls of store_memory, update_memory and delete_memory
LifecycleNext ==
    \/ /\ next_uuid < MaxLifecycleIds
       /\ \E text \in LifecycleTexts :
             StoreMemory(text, Dict([timestamp |-> "ts"]), TRUE, TRUE)
    \/ \E memory_id \in LifecycleIds, new_text \in LifecycleTexts :
          UpdateMemory(memory_id, new_text, TRUE, TRUE)
    \/ \E memory_id \in LifecycleIds : DeleteMemory(memory_id, TRUE)

SpecLifecycle == RestInit /\ [][LifecycleNext]_vars

\* cancel requests between deletes and queries on a table of stored records
CancelNext ==
    \/ \E body \in CancelBodies, provider_ok \in BOOLEAN :
          CancelEndpoint(body, provider_ok)
    \/ \E memory_id \in ManageIds : DeleteMemory(memory_id, TRUE)
    \/ QueryEndpoint(<<"a">>, MaxTopK, TRUE)

SpecCancel == ManageInit /\ [][CancelNext]_vars

\* what the classifier answers in the calls that compare forced and unforced
\* requests: a clarify decision, a confident store and retrieve, and a store
\* below the confidence minimum
ForceLlmOutputs ==
    {LlmDecides("clarify", 100), LlmDecides("store", 100),
     LlmDecides("retrieve", 100), LlmDecides("store", 50), LlmError}

\* auto requests with and without force_action
ForceNext ==
    \E text \in AutoTexts, force_action \in ForceActions, llm \in ForceLlmOutputs,
       provider_ok \in BOOLEAN :
       AutoEndpoint(text, force_action, llm, provider_ok)

SpecForce == RestInit /\ [][ForceNext]_vars

\* calls of cosine_similarity on every pair of the vectors
CosineNext == \E a \in CosineVectors, b \in CosineVectors : CosineSimilarityCall(a, b)

SpecCosine == RestInit /\ [][CosineNext]_vars

\* texts whose embeddings lie on both sides of the duplicate threshold:
\* a and d are no duplicates of each other, b is a duplicate of both
DedupTexts == {<<"a">>, <<"b">>, <<" ", "c">>, <<"d", " ">>}

\* sequential calls of store_memory and delete_memory, and nothing else
StoreDeleteNext ==
    \/ \E text \in DedupTexts :
          /\ StoreMemory(text, Dict([timestamp |-> "ts"]), TRUE, TRUE)
          /\ next_uuid' <= MaxLifecycleIds
    \/ \E memory_id \in LifecycleIds : DeleteMemory(memory_id, TRUE)

SpecStoreDelete == RestInit /\ [][StoreDeleteNext]_vars

\* the candidates a query over the table returns, as create_session gets them
TableCandidates(rows) ==
    LET candidates == QueryMemory(rows, ProviderEmbedding(<<"a">>), MaxTopK)
    IN [i \in 1..Len(candidates) |-> MemoryCandidate(candidates[i])]

\* sessions created from the table, read while the table is stored to,
\* updated and deleted from
SnapshotNext ==
    \/ CreateSession(TableCandidates(memories))
    \/ \E session_id \in DOMAIN sess_created : GetSessionCandidates(session_id)
    \/ /\ store_last.status = "none"
       /\ StoreMemory(<<"c">>, Dict([timestamp |-> "ts"]), TRUE, TRUE)
    \/ \E memory_id \in 1..MaxManageRows :
          UpdateMemory(memory_id, <<" ", "c">>, TRUE, TRUE)
    \/ \E memory_id \in 1..MaxManageRows : DeleteMemory(memory_id, TRUE)

\* the table the sessions are created from: two records, stored as 'a' and 'd'
SnapshotInit ==
    /\ QueryInit
    /\ memories = ReplayStores(<< <<"a">>, <<"d", " ">> >>).memories

SpecSnapshot == SnapshotInit /\ [][SnapshotNext]_vars

----------------------------------------------------------------------------
(* Properties of the rate limiter, checked under SpecRate *)

AllowedCount(counter_key) ==
    IF counter_key \in DOMAIN rl_decided
    THEN Cardinality({i \in 1..Len(rl_decided[counter_key]) :
                         rl_decided[counter_key][i] = "allowed"})
    ELSE 0

\* C1: for every key and every window, the calls decided for that (key, window)
\* are allowed up to the max-th one and rejected from the (max+1)-th one on.
C1_FirstMaxAllowedThenRejected ==
    \A counter_key \in DOMAIN rl_decided :
        \A i \in 1..Len(rl_decided[counter_key]) :
            (rl_decided[counter_key][i] = "allowed") <=> (i <= rate_limit_max_requests)

\* a key has had more than max calls decided in one window
C1_Witness ==
    \E counter_key \in DOMAIN rl_decided :
        /\ Len(rl_decided[counter_key]) > rate_limit_max_requests
        /\ rl_decided[counter_key][rate_limit_max_requests + 1] = "rejected"

\* C2: under every interleaving the check and the increment are one atomic
\* step: at most one thread is between its read and its update, the count it
\* read is still the stored count, and every counter equals the number of
\* calls allowed so far for its (key, window), which never exceeds max.
C2_CheckAndIncrementAtomic ==
    /\ Cardinality({t \in Threads : rl_pc[t] \in {"read", "check"}}) <= 1
    /\ \A t \in Threads :
          rl_pc[t] = "check" =>
              rl_count[t] = CounterGet(rate_limit_counters, <<rl_key[t], rl_window[t]>>)
    /\ \A counter_key \in DOMAIN rate_limit_counters \cup DOMAIN rl_decided :
          /\ CounterGet(rate_limit_counters, counter_key) = AllowedCount(counter_key)
          /\ AllowedCount(counter_key) <= rate_limit_max_requests

\* two requests of one key race for the last free slot of a window: one has
\* read max-1 and is about to update, the other waits for the lock
C2_Witness ==
    \E t1, t2 \in Threads :
        /\ t1 # t2
        /\ rl_pc[t1] = "check"
        /\ rl_pc[t2] = "acquire"
        /\ rl_key[t1] = rl_key[t2]
        /\ rl_window[t1] = rl_window[t2]
        /\ rl_count[t1] = rate_limit_max_requests - 1

\* thread t leaves the with block in this step: its call is decided
CheckStepBy(t) == rl_pc[t] = "check" /\ rl_pc'[t] = "idle"

\* C16: a call made for one key changes neither the counter nor the decision
\* history of any other key, and the decision for a call depends only on the
\* number of calls already allowed for its own (key, window): whatever the
\* other keys have used up, a key is allowed until its own max.
C16_Step ==
    /\ \A ck \in DOMAIN rate_limit_counters \cup DOMAIN rate_limit_counters' :
          CounterGet(rate_limit_counters', ck) # CounterGet(rate_limit_counters, ck)
              => \E t \in Threads : CheckStepBy(t) /\ rl_key[t] = ck[1]
    /\ \A ck \in DOMAIN rl_decided' :
          (ck \notin DOMAIN rl_decided \/ rl_decided'[ck] # rl_decided[ck])
              => \E t \in Threads : CheckStepBy(t) /\ rl_key[t] = ck[1]
    /\ \A t \in Threads :
          CheckStepBy(t) =>
              ((rl_result'[t] = "allowed")
                  <=> (AllowedCount(<<rl_key[t], rl_window[t]>>)
                          < rate_limit_max_requests))

C16_KeysIsolated == [][C16_Step]_vars

\* key A has been rejected in a window in which key B has calls allowed and
\* quota left
C16_Witness ==
    \E w \in {0, 1} :
        /\ <<"A", w>> \in DOMAIN rl_decided
        /\ <<"B", w>> \in DOMAIN rl_decided
        /\ Len(rl_decided[<<"A", w>>]) > rate_limit_max_requests
        /\ AllowedCount(<<"B", w>>) = Len(rl_decided[<<"B", w>>])
        /\ CounterGet(rate_limit_counters, <<"B", w>>) = Len(rl_decided[<<"B", w>>])

\* C17: a rejected call leaves every counter as it was, the counter of its
\* key standing at max; an allowed call adds one to the counter of its own
\* (key, window) and changes no other; no other step changes a counter.
C17_Step ==
    /\ \A t \in Threads :
          CheckStepBy(t) =>
              LET own == <<rl_key[t], rl_window[t]>>
              IN IF rl_result'[t] = "rejected"
                 THEN /\ rate_limit_counters' = rate_limit_counters
                      /\ CounterGet(rate_limit_counters, own) = rate_limit_max_requests
                 ELSE /\ rl_result'[t] = "allowed"
                      /\ rate_limit_counters' =
                             CounterSet(rate_limit_counters, own,
                                        CounterGet(rate_limit_counters, own) + 1)
    /\ (~\E t \in Threads : CheckStepBy(t))
          => rate_limit_counters' = rate_limit_counters

C17_RejectKeepsAllowAddsOne == [][C17_Step]_vars

\* one thread's call has just been rejected at a full counter while the other
\* thread's call has just been allowed
C17_Witness ==
    \E t1, t2 \in Threads :
        /\ rl_result[t1] = "rejected"
        /\ rl_result[t2] = "allowed"
        /\ \E ck \in DOMAIN rate_limit_counters :
              rate_limit_counters[ck] = rate_limit_max_requests

\* C18: fixed windows. A call is counted under the window its time falls in;
\* its decision depends on the counter of that window alone and it changes no
\* counter of another window, so a key rejected in window w is allowed again
\* in window w+1; no window_index ever has more than max calls allowed, while
\* 2*max calls can be allowed within a span shorter than a window around a
\* boundary.
C18_Step ==
    /\ \A t \in Threads :
          (rl_pc[t] = "idle" /\ rl_pc'[t] = "acquire") =>
              /\ rl_window'[t] * rate_limit_window_seconds <= clock
              /\ clock < (rl_window'[t] + 1) * rate_limit_window_seconds
    /\ \A t \in Threads :
          CheckStepBy(t) =>
              /\ (rl_result'[t] = "allowed")
                    <=> (CounterGet(rate_limit_counters, <<rl_key[t], rl_window[t]>>)
                            < rate_limit_max_requests)
              /\ \A ck \in DOMAIN rate_limit_counters \cup DOMAIN rate_limit_counters' :
                    ck[2] # rl_window[t] =>
                        CounterGet(rate_limit_counters', ck)
                            = CounterGet(rate_limit_counters, ck)
    /\ \A ck \in DOMAIN rate_limit_counters' :
          /\ rate_limit_counters'[ck] <= rate_limit_max_requests
          /\ CounterGet(rate_limit_counters', ck)
                = Cardinality({i \in 1..Len(rl_decided'[ck]) :
                                  rl_decided'[ck][i] = "allowed"})

C19_DisabledWithoutAuthKey ==
    api_auth_key = NoKey =>
        /\ rate_limit_counters = << >>
        /\ rl_decided = << >>
        /\ \A t \in Threads :
              /\ rl_pc[t] = "idle"
              /\ rl_result[t] \in {"none", "skipped"}

\* with no api_auth_key configured, both threads have had calls let through
C19_Witness ==
    /\ api_auth_key = NoKey
    /\ \A t \in Threads : rl_result[t] = "skipped"

----------------------------------------------------------------------------
(* Properties of query_memory, checked under SpecQuery *)

\* the last query got as far as the call of query_memory
QueryRanked(call) == call.status \in {"ok", "MemoryServiceError"}

\* similarity of the text of a query to row j of the table
ScoreOfRow(call, j) ==
    cosine_similarity(ProviderEmbedding(Strip(call.text)),
                      JsonLoads(memories[j].embedding))

\* position in the table of the row a candidate was made from (0: none)
RowOf(candidate) ==
    IF \E j \in 1..Len(memories) : memories[j].id = candidate.memory_id
    THEN CHOOSE j \in 1..Len(memories) : memories[j].id = candidate.memory_id
    ELSE 0

\* C14: over n stored records query_memory(query, top_k) returns min(top_k, n)
\* candidates, each a different stored record with its own score, in
\* non-increasing order of score, and no record left out scores strictly
\* higher than a returned one.
C14_TopKOfFullRanking ==
    QueryRanked(q_last) =>
        LET c == q_last.candidates
            n == Len(memories)
        IN /\ Len(c) = (IF q_last.top_k <= n THEN q_last.top_k ELSE n)
           /\ \A i \in 1..Len(c) :
                 /\ RowOf(c[i]) # 0
                 /\ c[i].text = memories[RowOf(c[i])].text
                 /\ c[i].similarity_score = ScoreOfRow(q_last, RowOf(c[i]))
           /\ \A i, k \in 1..Len(c) : i # k => c[i].memory_id # c[k].memory_id
           /\ \A i \in 1..(Len(c) - 1) :
                 c[i].similarity_score >= c[i + 1].similarity_score
           /\ \A j \in 1..n :
                 (\A i \in 1..Len(c) : RowOf(c[i]) # j) =>
                     \A i \in 1..Len(c) :
                         ScoreOfRow(q_last, j) <= c[i].similarity_score

\* a query cut off a record that was scanned before a returned one and
\* scores lower than it
C14_Witness ==
    /\ QueryRanked(q_last)
    /\ Len(q_last.candidates) = q_last.top_k
    /\ Len(memories) > q_last.top_k
    /\ \E j \in 1..Len(memories) :
          /\ \A i \in 1..Len(q_last.candidates) : RowOf(q_last.candidates[i]) # j
          /\ \E i \in 1..Len(q_last.candidates) :
                /\ RowOf(q_last.candidates[i]) > j
                /\ ScoreOfRow(q_last, j) < q_last.candidates[i].similarity_score

\* C15: records with equal similarity are returned in scan order, and the
\* ranking is a function of the store content and the query: a repeated query
\* returns the same list, and a smaller top_k returns a prefix of it.
C15_Step ==
    /\ QueryRanked(q_last') =>
          \A i, k \in 1..Len(q_last'.candidates) :
              (i < k /\ q_last'.candidates[i].similarity_score
                          = q_last'.candidates[k].similarity_score)
                  => RowOf(q_last'.candidates[i]) < RowOf(q_last'.candidates[k])
    /\ (/\ QueryRanked(q_last) /\ QueryRanked(q_last')
        /\ Strip(q_last'.text) = Strip(q_last.text)
        /\ q_last'.top_k <= q_last.top_k)
          => q_last'.candidates
                = SubSeq(q_last.candidates, 1,
                         IF q_last'.top_k <= Len(q_last.candidates)
                         THEN q_last'.top_k ELSE Len(q_last.candidates))

C15_TiesInScanOrder == [][C15_Step]_vars

\* the two best candidates of a query have the same score
C15_Witness ==
    /\ QueryRanked(q_last)
    /\ Len(q_last.candidates) >= 2
    /\ q_last.candidates[1].similarity_score = q_last.candidates[2].similarity_score
    /\ q_last.candidates[1].similarity_score > 0

----------------------------------------------------------------------------
(* Properties of the clarify endpoint, checked under SpecClarify *)

\* the last clarify request carried a query that is not blank
ClarifyAsked ==
    /\ c_last.status # "none"
    /\ c_last.request.query.given
    /\ Strip(c_last.request.query.value) # << >>

\* the chosen id of the last clarify request, BlankId when it carries none
ChosenId ==
    IF c_last.request.chosen_memory_id.given
    THEN c_last.request.chosen_memory_id.value ELSE BlankId

\* the chosen phrase of the last clarify request, empty when it carries none
ChosenPhrase ==
    IF c_last.request.chosen_memory_phrase.given
    THEN Strip(c_last.request.chosen_memory_phrase.value) ELSE << >>

\* C11: a clarification with a chosen id returns the record stored under that
\* id, with that id and its exact text; when no record has the id the call
\* fails with NotFound and leaves the store and the cache as they were.
C11_ClarifyById ==
    (ClarifyAsked /\ ChosenId # BlankId) =>
        IF \E j \in 1..Len(memories) : memories[j].id = ChosenId
        THEN /\ c_last.status = "ok"
             /\ c_last.result.memory_id = ChosenId
             /\ \E j \in 1..Len(memories) :
                   /\ memories[j].id = ChosenId
                   /\ c_last.result.text = memories[j].text
        ELSE /\ c_last.status = "MemoryNotFoundError"
             /\ memories = c_last.memories_before
             /\ embedding_cache = c_last.cache_before

\* C12: a clarification with neither a chosen id nor a chosen phrase fails
\* with InvalidInput, and so does every clarification that carries a session
\* id which is unknown to the session store or expired.
C12_ClarifyInvalidInput ==
    ClarifyAsked =>
        /\ (ChosenId = BlankId /\ ChosenPhrase = << >>)
              => c_last.status = "InvalidInputError"
        /\ (/\ c_last.request.session_id.given
            /\ \/ c_last.request.session_id.value
                      \notin DOMAIN c_last.sessions_before
               \/ SessionExpired(clock,
                      c_last.sessions_before[c_last.request.session_id.value].expires))
              => c_last.status = "InvalidInputError"

\* the candidates a clarification by phrase chooses among
ClarifyCandidates ==
    QueryMemory(c_last.memories_before,
                ProviderEmbedding(Strip(c_last.request.query.value)),
                clarify_min_candidates)

\* C13: a clarification by phrase, with no chosen id, resolves to the
\* candidate with the largest word overlap with the phrase, the earliest
\* ranked one among equals; when no candidate shares a word with the phrase,
\* to the candidate whose text is most similar to the phrase; the record
\* chosen is one of the candidates; with no candidates it fails with
\* InvalidInput (the embedding provider answering).
C13_ClarifyByPhrase ==
    (ClarifyAsked /\ ChosenId = BlankId /\ ChosenPhrase # << >>
        /\ c_last.provider_ok) =>
        LET c == ClarifyCandidates
            Sim(i) == cosine_similarity(ProviderEmbedding(ChosenPhrase),
                                        ProviderEmbedding(Strip(c[i].text)))
        IN IF c = << >> THEN c_last.status = "InvalidInputError"
           ELSE /\ c_last.status = "ok"
                /\ \E i \in 1..Len(c) :
                      /\ c_last.result.memory_id = c[i].memory_id
                      /\ c_last.result.text = c[i].text
                      /\ \A k \in 1..Len(c) :
                            /\ Overlap(ChosenPhrase, c[k].text)
                                  <= Overlap(ChosenPhrase, c[i].text)
                            /\ (k < i) => Overlap(ChosenPhrase, c[k].text)
                                             < Overlap(ChosenPhrase, c[i].text)
                      /\ (Overlap(ChosenPhrase, c[i].text) = 0)
                            => \A k \in 1..Len(c) : Sim(k) <= Sim(i)

----------------------------------------------------------------------------
(* Properties of the application, checked under SpecApp *)

\* C20: the rate-limit check runs ahead of every core API operation: a request
\* of a key that has already sent max requests in the current window is
\* answered 429 and leaves the memory store, the embedding cache and the
\* session store as they were; health and legacy requests are never limited.
C20_Step ==
    (app_last' # app_last \/ app_served' # app_served) =>
        /\ (/\ app_last'.endpoint \in CoreEndpoints
            /\ api_auth_key # NoKey
            /\ app_last'.x_api_key # NoKey
            /\ CounterGet(app_served, <<app_last'.x_api_key, WindowIndex(clock)>>)
                  >= rate_limit_max_requests)
              => /\ app_last'.http_status = 429
                 /\ memories' = memories
                 /\ embedding_cache' = embedding_cache
                 /\ session_store' = session_store
        /\ app_last'.endpoint \in PlainEndpoints => app_last'.http_status = 200

C20_RateLimitGatesCoreOperations == [][C20_Step]_vars

----------------------------------------------------------------------------
(* Properties of store_memory, checked under SpecStore *)

\* similarity of the text of the last call to row i of the table
SimilarityToRow(i) ==
    cosine_similarity(ProviderEmbedding(Strip(store_last.text)),
                      JsonLoads(memories[i].embedding))

LastStoreInserted ==
    /\ store_last.status = "ok"
    /\ Len(memories) = store_last.count_before + 1

\* C3: when a successful store that reported no duplicate is followed at once
\* by a successful store of the same trimmed text, the second call reports a
\* duplicate with the memory_id the first call returned and a preview equal
\* to the trimmed text, which is the text stored under that id, and the
\* record count is what it was before the second call.
C3_SecondStoreIsDuplicate ==
    ( /\ store_prev.status = "ok"
      /\ ~store_prev.result.duplicate_detected
      /\ store_last.status = "ok"
      /\ Strip(store_last.text) = store_prev.text )
    => /\ store_last.result.duplicate_detected
       /\ store_last.result.memory_id = store_prev.result.memory_id
       /\ store_last.result.existing_memory_preview = Strip(store_last.text)
       /\ Len(memories) = store_last.count_before
       /\ \E i \in 1..Len(memories) :
             /\ memories[i].id = store_prev.result.memory_id
             /\ memories[i].text = Strip(store_last.text)

\* the same text, once with and once without surrounding whitespace, stored
\* twice in a row into a table that already held another record
C3_Witness ==
    /\ store_prev.status = "ok"
    /\ ~store_prev.result.duplicate_detected
    /\ store_last.status = "ok"
    /\ Strip(store_last.text) = store_prev.text
    /\ store_last.text # store_prev.text
    /\ store_last.result.duplicate_detected
    /\ Len(memories) >= 2

\* C4: a successful store inserts (exactly one row, duplicate_detected=false)
\* if and only if every row present before the call has a similarity strictly
\* below the threshold; a similarity equal to the threshold is a duplicate.
C4_InsertIffAllBelowThreshold ==
    store_last.status = "ok" =>
        /\ Len(memories) \in {store_last.count_before, store_last.count_before + 1}
        /\ LastStoreInserted <=> ~store_last.result.duplicate_detected
        /\ LastStoreInserted <=>
              \A i \in 1..store_last.count_before :
                  SimilarityToRow(i) < DUPLICATE_THRESHOLD

\* a store whose similarity to an existing row is exactly the threshold was
\* reported as a duplicate and inserted nothing
C4_Witness ==
    /\ store_last.status = "ok"
    /\ store_last.result.duplicate_detected
    /\ store_last.result.similarity_score = DUPLICATE_THRESHOLD
    /\ Len(memories) = store_last.count_before
    /\ \A i \in 1..Len(memories) : SimilarityToRow(i) <= DUPLICATE_THRESHOLD

\* C5: a reported duplicate is the first row in scan order that reaches the
\* threshold, with that row's id, text and score, whatever later rows score.
C5_FirstInScanOrderReported ==
    (store_last.status = "ok" /\ store_last.result.duplicate_detected) =>
        \E i \in 1..Len(memories) :
            /\ SimilarityToRow(i) >= DUPLICATE_THRESHOLD
            /\ \A j \in 1..(i - 1) : SimilarityToRow(j) < DUPLICATE_THRESHOLD
            /\ store_last.result.memory_id = memories[i].id
            /\ store_last.result.existing_memory_preview = memories[i].text
            /\ store_last.result.similarity_score = SimilarityToRow(i)

\* two rows reach the threshold and the later one scores strictly higher than
\* the one that was reported
C5_Witness ==
    /\ store_last.status = "ok"
    /\ store_last.result.duplicate_detected
    /\ \E i, j \in 1..Len(memories) :
          /\ i < j
          /\ store_last.result.memory_id = memories[i].id
          /\ SimilarityToRow(i) >= DUPLICATE_THRESHOLD
          /\ SimilarityToRow(j) > SimilarityToRow(i)

\* the row a successful, inserting call is expected to add
ExpectedRow(call, memory_id) ==
    [id |-> memory_id,
     text |-> Strip(call.text),
     embedding |-> JsonDumps(ProviderEmbedding(Strip(call.text))),
     timestamp |-> IF "timestamp" \in DOMAIN call.metadata.items
                   THEN call.metadata.items.timestamp ELSE NoValue,
     language |-> IF "language" \in DOMAIN call.metadata.items
                  THEN call.metadata.items.language ELSE "he",
     location |-> IF "location" \in DOMAIN call.metadata.items
                  THEN call.metadata.items.location ELSE NoValue]

C6_Step ==
    store_last'.status = "ok" =>
        \/ /\ ~store_last'.result.duplicate_detected
           /\ store_last'.result.memory_id \notin {memories[i].id : i \in 1..Len(memories)}
           /\ memories' = Append(memories,
                                 ExpectedRow(store_last', store_last'.result.memory_id))
        \/ /\ store_last'.result.duplicate_detected
           /\ memories' = memories

\* C6: every successful store_memory call either appends exactly one row (the
\* trimmed text, the given metadata, a new id, duplicate_detected=false) and
\* leaves all earlier rows as they were, or reports duplicate_detected=true
\* and leaves the table unchanged.
C6_ExactlyOneEffect == [][C6_Step]_vars

\* a call with metadata appended a row to a table that already held rows
C6_Witness ==
    /\ LastStoreInserted
    /\ store_last.count_before >= 1
    /\ store_last.metadata.items # << >>
    /\ memories[Len(memories)].language = "en"

----------------------------------------------------------------------------
(* Properties of the session store, checked under SpecSession *)

\* C7: a get on a created session returns the candidates create_session was
\* given, in the same order, while the clock has not passed creation time +
\* 300 s, and not_found once the clock is past it.
C7_SessionValidUntilExpiry ==
    (sess_last.op = "get" /\ sess_last.session_id \in DOMAIN sess_created) =>
        LET made == sess_created[sess_last.session_id]
        IN IF sess_last.now <= made.created_at + SESSION_TTL_SECONDS
           THEN sess_last.returned = Found(made.candidates)
           ELSE sess_last.returned = NotFound

\* a session with two candidates was read after its expiry
C7_Witness ==
    /\ sess_last.op = "get"
    /\ sess_last.session_id \in DOMAIN sess_created
    /\ Len(sess_created[sess_last.session_id].candidates) = 2
    /\ sess_last.now > sess_created[sess_last.session_id].created_at
                         + SESSION_TTL_SECONDS
    /\ sess_last.returned = NotFound

\* C8: get deletes the entry and returns not_found exactly when the entry
\* exists and now > expires; when now <= expires it returns the candidates and
\* keeps the entry; for an unknown id it returns not_found and changes nothing.
C8_LazyExpiry ==
    sess_last.op = "get" =>
        LET id == sess_last.session_id
            existed == id \in DOMAIN sess_last.before
        IN /\ ~existed =>
                 /\ sess_last.returned = NotFound
                 /\ sess_last.after = sess_last.before
           /\ (existed /\ sess_last.now > sess_last.before[id].expires) =>
                 /\ sess_last.returned = NotFound
                 /\ sess_last.after = DictDel(sess_last.before, id)
           /\ (existed /\ sess_last.now <= sess_last.before[id].expires) =>
                 /\ sess_last.returned = Found(LoadAll(sess_last.before[id].candidates))
                 /\ sess_last.after = sess_last.before

\* a get at the very instant of expiry returned the candidates and kept the entry
C8_Witness ==
    /\ sess_last.op = "get"
    /\ sess_last.session_id \in DOMAIN sess_last.before
    /\ sess_last.now = sess_last.before[sess_last.session_id].expires
    /\ sess_last.returned.found
    /\ sess_last.session_id \in DOMAIN sess_last.after

\* C25: get_session_candidates changes neither expires nor the candidates of
\* any entry: an entry keeps the expiry time and the candidates it was
\* created with for as long as it is in the map, however often it is read.
C25_Step ==
    /\ \A id \in DOMAIN session_store \cap DOMAIN session_store' :
          session_store'[id] = session_store[id]
    /\ \A id \in DOMAIN session_store' :
          /\ session_store'[id].expires
                = sess_created'[id].created_at + SESSION_TTL_SECONDS
          /\ session_store'[id].candidates = DumpAll(sess_created'[id].candidates)
    /\ sess_last'.op = "get" => DOMAIN session_store' \subseteq DOMAIN session_store

C25_NoRenewalOnRead == [][C25_Step]_vars

\* a session was read after its creation, at the last instant of its life,
\* and still expires when it did at creation
C25_Witness ==
    /\ sess_last.op = "get"
    /\ sess_last.returned.found
    /\ sess_last.session_id \in DOMAIN session_store
    /\ sess_last.now > sess_created[sess_last.session_id].created_at
    /\ session_store[sess_last.session_id].expires = sess_last.now
    /\ Len(session_store[sess_last.session_id].candidates) = 2

\* C26: an entry leaves the map only in a get_session_candidates call on its
\* own id made after its expiry; create_session, gets on other ids and the
\* passing of time remove nothing.
C26_Step ==
    \A id \in DOMAIN session_store \ DOMAIN session_store' :
        /\ sess_last'.op = "get"
        /\ sess_last'.session_id = id
        /\ sess_last'.before = session_store
        /\ clock' = clock
        /\ clock > session_store[id].expires

C26_RemovedOnlyByOwnExpiredGet == [][C26_Step]_vars

\* a get after the expiry of both sessions removed the one it asked for and
\* left the other, expired, in the map
C26_Witness ==
    /\ sess_last.op = "get"
    /\ sess_last.session_id \in DOMAIN sess_last.before
    /\ sess_last.session_id \notin DOMAIN session_store
    /\ \E id \in DOMAIN session_store :
          /\ id # sess_last.session_id
          /\ sess_last.now > session_store[id].expires

----------------------------------------------------------------------------
(* Properties of the query endpoint, checked under SpecQuery *)

\* the handler got as far as the "Check if clarification is needed" block
QueryDecided == q_last.status \in {"ok", "MemoryServiceError"}

C10_AmbiguousQueryOpensSession ==
    QueryDecided =>
        LET created == DOMAIN q_last.sessions_after \ DOMAIN q_last.sessions_before
        IN IF q_last.clarification_required
           THEN /\ Cardinality(created) = 1
                /\ \A id \in created :
                      /\ q_last.sessions_after[id].candidates = DumpAll(q_last.candidates)
                      /\ "session_id" \in DOMAIN q_last.result
                      /\ q_last.result.session_id = id
           ELSE /\ created = {}
                /\ "session_id" \notin DOMAIN q_last.result

----------------------------------------------------------------------------
(* Properties of embed_text, checked under SpecEmbed *)

\* this step is a call of embed_text with a text that is not blank
EmbedStep ==
    /\ e_last'.flip # e_last.flip
    /\ e_last'.status \in {"ok", "OpenAIError"}

\* C21: embed_text calls the provider exactly when the trimmed text has no
\* entry in the cache, and then stores what the provider answered; a cached
\* text gets the cached vector.  So between two clears the provider answers
\* at most once per trimmed text, and texts that differ only in surrounding
\* whitespace share one entry.
C21_Step ==
    /\ EmbedStep =>
          LET h == GetTextHash(Strip(e_last'.text))
          IN /\ e_last'.called <=> h \notin DOMAIN embedding_cache
             /\ e_last'.status = "ok" =>
                   /\ h \in DOMAIN embedding_cache'
                   /\ embedding_cache'[h] = e_last'.result
                   /\ \A k \in DOMAIN embedding_cache :
                         /\ k \in DOMAIN embedding_cache'
                         /\ embedding_cache'[k] = embedding_cache[k]
                   /\ DOMAIN embedding_cache' = DOMAIN embedding_cache \cup {h}
    /\ \A t \in DOMAIN provider_calls' : provider_calls'[t] <= 1

C22_Step ==
    /\ (EmbedStep /\ ~e_last'.provider_ok
          /\ GetTextHash(Strip(e_last'.text)) \notin DOMAIN embedding_cache)
          => /\ e_last'.status = "OpenAIError"
             /\ e_last'.result = << >>
             /\ embedding_cache' = embedding_cache
    /\ (EmbedStep /\ e_last.status = "OpenAIError"
          /\ Strip(e_last'.text) = Strip(e_last.text))
          => e_last'.called
    /\ e_last'.status = "OpenAIError" => ~e_last'.provider_ok

C22_FailureNotCached == [][C22_Step]_vars

\* the provider failed for a text and the next call for the same text got
\* its vector from the provider
C22_Witness ==
    /\ e_last.prev_status = "OpenAIError"
    /\ Strip(e_last.prev_text) = Strip(e_last.text)
    /\ e_last.status = "ok"
    /\ e_last.called
    /\ embedding_cache # << >>

----------------------------------------------------------------------------
(* Properties of concurrent store requests, checked under SpecStoreRace *)

\* request r inserts in this step
InsertStepBy(r) == st_pc[r] = "scanned" /\ st_pc'[r] = "idle"

\* C23: the duplicate scan and the insert of a store request are two steps.
\* A request whose scan found no duplicate inserts its row whatever has been
\* inserted since, so the row it adds can only duplicate rows that were
\* added after its scan; two requests for the same text that both scan before
\* either inserts leave two records with that text.
C23_Step ==
    \A r \in Requests :
        InsertStepBy(r) =>
            /\ Len(memories') = Len(memories) + 1
            /\ memories'[Len(memories')].text = st_local[r].text
            /\ SubSeq(memories', 1, Len(memories)) = memories
            /\ \A i \in 1..Len(memories) :
                  IsDuplicate(cosine_similarity(st_local[r].new_embedding,
                                                JsonLoads(memories[i].embedding)))
                      => i > Len(st_local[r].existing_memories)

C23_ScanAndInsertNotAtomic == [][C23_Step]_vars

\* both requests were answered "no duplicate" and the table holds two
\* records with the same text
C23_Witness ==
    /\ \A r \in Requests :
          /\ st_pc[r] = "idle"
          /\ st_local[r].status = "ok"
          /\ ~st_local[r].result.duplicate_detected
    /\ \E i, j \in 1..Len(memories) :
          /\ i < j
          /\ memories[i].text = memories[j].text
          /\ {memories[i].id, memories[j].id}
                = {st_local[r].result.memory_id : r \in Requests}

----------------------------------------------------------------------------
(* Properties of concurrent session lookups, checked under SpecSessionRace *)

\* C24: lookup, expiry check and delete of get_session_candidates exclude
\* each other between concurrent requests: no call ever fails, and a call
\* that found its session expired returns not_found.
C24_LookupsExcludeEachOther ==
    \A r \in Requests :
        /\ sg_local[r].status \in {"none", "running", "ok"}
        /\ (sg_pc[r] = "idle" /\ sg_local[r].status = "ok" /\ sg_local[r].data.found
              /\ SessionExpired(sg_local[r].now, sg_local[r].data.value.expires))
              => ~sg_local[r].result.found

----------------------------------------------------------------------------
(* Properties of update_memory and delete_memory, checked under SpecManage *)

\* this step is a call of update_memory, delete_memory or get_memory_by_id
ManageStep(op) == m_last' # m_last /\ m_last'.op = op

\* this step is a query
QueryStep == q_last' # q_last

\* C27: update_memory on the id of a row replaces that row's text by the
\* trimmed new text and its embedding by the embedding of that text; the row
\* keeps its id, timestamp and place, every other row and the number of rows
\* stay as they were, and a query afterwards returns the new text for the id.
\* On an id no row has it reports "Memory not found" and changes nothing.
C27_Step ==
    /\ (ManageStep("update") /\ m_last'.status = "ok") =>
          LET j == RowOfId(memories, m_last'.memory_id)
              trimmed == Strip(m_last'.new_text)
          IN IF j = 0
             THEN /\ ~m_last'.result.success
                  /\ m_last'.result.error = "Memory not found"
                  /\ memories' = memories
                  /\ embedding_cache' = embedding_cache
             ELSE /\ m_last'.result.success
                  /\ m_last'.result.before = memories[j].text
                  /\ m_last'.result.after = trimmed
                  /\ Len(memories') = Len(memories)
                  /\ \A i \in 1..Len(memories) : i # j => memories'[i] = memories[i]
                  /\ memories'[j].text = trimmed
                  /\ memories'[j].embedding = JsonDumps(ProviderEmbedding(trimmed))
                  /\ memories'[j].id = memories[j].id
                  /\ memories'[j].timestamp = memories[j].timestamp
                  /\ memories'[j].language = memories[j].language
                  /\ memories'[j].location = memories[j].location
    /\ (ManageStep("update") /\ m_last'.status # "ok") => memories' = memories
    /\ QueryStep =>
          /\ \A i \in 1..Len(q_last'.candidates) :
                LET j == RowOfId(memories, q_last'.candidates[i].memory_id)
                IN /\ j # 0
                   /\ q_last'.candidates[i].text = memories[j].text
                   /\ q_last'.candidates[i].similarity_score
                         = cosine_similarity(ProviderEmbedding(Strip(q_last'.text)),
                                             ProviderEmbedding(memories[j].text))
          /\ Len(q_last'.candidates) = Min(q_last'.top_k, Len(memories))

C27_UpdateInPlace == [][C27_Step]_vars

\* after an update of one of two rows with an untrimmed text, a query
\* returned the trimmed new text for the updated id and the old text for
\* the other
C27_Witness ==
    /\ m_last.op = "update"
    /\ m_last.status = "ok"
    /\ m_last.result.success
    /\ m_last.new_text # m_last.result.after
    /\ m_last.result.before # m_last.result.after
    /\ Len(memories) = 2
    /\ q_last.status # "none"
    /\ Len(q_last.candidates) = 2
    /\ \E i, k \in 1..2 :
          /\ q_last.candidates[i].memory_id = m_last.memory_id
          /\ q_last.candidates[i].text = m_last.result.after
          /\ q_last.candidates[k].memory_id # m_last.memory_id
          /\ q_last.candidates[k].text # m_last.result.after

\* C28: delete_memory on the id of a row removes that row and no other and
\* returns its text; afterwards no row has the id, no query returns it, and
\* get_memory_by_id, update_memory and delete_memory on it report not found.
\* On an id no row has it reports "Memory not found" and changes nothing.
C28_Step ==
    /\ (ManageStep("delete") /\ m_last'.status = "ok") =>
          LET j == RowOfId(memories, m_last'.memory_id)
          IN IF j = 0
             THEN /\ ~m_last'.result.success
                  /\ m_last'.result.error = "Memory not found"
                  /\ memories' = memories
             ELSE /\ m_last'.result.success
                  /\ m_last'.result.deleted_text = memories[j].text
                  /\ memories' = SubSeq(memories, 1, j - 1)
                                    \o SubSeq(memories, j + 1, Len(memories))
    /\ (ManageStep("delete") /\ m_last'.status # "ok") => memories' = memories
    /\ \A i \in 1..Len(memories') : memories'[i].id \notin deleted_ids'
    /\ \A op \in {"update", "delete", "get"} :
          (ManageStep(op) /\ m_last'.status = "ok"
             /\ m_last'.memory_id \in deleted_ids)
             => /\ memories' = memories
                /\ IF op = "get" THEN ~m_last'.result.found
                   ELSE ~m_last'.result.success
    /\ QueryStep =>
          \A i \in 1..Len(q_last'.candidates) :
              q_last'.candidates[i].memory_id \notin deleted_ids

C28_DeleteRemovesExactlyOne == [][C28_Step]_vars

\* the first of two rows has been deleted, the other is still there, and an
\* update of the deleted id has just reported not found
C28_Witness ==
    /\ deleted_ids = {1}
    /\ Len(memories) = 1
    /\ memories[1].id = 2
    /\ m_last.op = "update"
    /\ m_last.memory_id = 1
    /\ m_last.status = "ok"
    /\ ~m_last.result.success
    /\ q_last.status # "none"
    /\ Len(q_last.candidates) = 1

----------------------------------------------------------------------------
(* Properties of the auto flow, checked under SpecAuto *)

\* this step is a call of the named endpoint
EndpointStep(endpoint) == a_last' # a_last /\ a_last'.endpoint = endpoint

\* the LLM's answer is not JSON, lacks a required field, names an action
\* outside {store, retrieve, clarify}, or gives a confidence outside [0, 1] or
\* below 0.70
UnusableAnswer(llm) ==
    \/ llm.kind = "invalid_json"
    \/ /\ llm.kind = "object"
       /\ \/ ~llm.action.given
          \/ ~llm.confidence.given
          \/ ~llm.language.given
          \/ ~llm.reason.given
          \/ llm.action.value \notin {"store", "retrieve", "clarify"}
          \/ /\ llm.confidence.value.type = "number"
             /\ \/ llm.confidence.value.value < 0
                \/ llm.confidence.value.value > 100
                \/ llm.confidence.value.value < 70

\* C29: without force_action, when the LLM's answer is invalid JSON, lacks a
\* required field, has an unknown action, or has a confidence outside [0, 1]
\* or below 0.70, auto_endpoint answers 200 with action clarify and no
\* result, and runs neither store_memory nor query_memory: the table and the
\* embedding cache stay as they were.
C29_Step ==
    (/\ EndpointStep("auto")
     /\ ~a_last'.force_action.given
     /\ Strip(a_last'.text) # << >>
     /\ UnusableAnswer(a_last'.llm))
        => /\ a_last'.status = "ok"
           /\ a_last'.http_status = 200
           /\ a_last'.action = "clarify"
           /\ a_last'.result = NoResult
           /\ a_last'.executed = "none"
           /\ memories' = memories
           /\ embedding_cache' = embedding_cache
           /\ next_uuid' = next_uuid

C29_UnusableAnswerClarifies == [][C29_Step]_vars

\* the LLM chose store with confidence 0.69 for a text the table does not
\* hold, and the call answered clarify and left the one stored row alone
C29_Witness ==
    /\ a_last.status = "ok"
    /\ a_last.endpoint = "auto"
    /\ ~a_last.force_action.given
    /\ a_last.llm = LlmDecides("store", 69)
    /\ a_last.action = "clarify"
    /\ a_last.result = NoResult
    /\ Len(memories) = 1
    /\ memories[1].text # Strip(a_last.text)

----------------------------------------------------------------------------
(* Properties of provider failures, checked under SpecProvider *)

\* the provider is down and the text has no entry in the cache
ProviderWouldFail(provider_ok, text) ==
    /\ ~provider_ok
    /\ Strip(text) # << >>
    /\ GetTextHash(Strip(text)) \notin DOMAIN embedding_cache

\* C30: when the embedding provider fails during a store, a query, an
\* update, or a store or retrieve run by the auto flow, the caller gets the
\* provider error (OpenAIServiceError, 503), not a success and not a generic
\* internal error, and the table is unchanged.
C30_Step ==
    /\ \A endpoint \in {"store", "update", "auto"} :
          (EndpointStep(endpoint) /\ a_last'.provider_failed)
             => /\ a_last'.status = "OpenAIServiceError"
                /\ a_last'.http_status = 503
                /\ memories' = memories
    /\ (q_last' # q_last /\ ProviderWouldFail(q_last'.provider_ok, q_last'.text))
          => /\ q_last'.status = "OpenAIServiceError"
             /\ memories' = memories

C30_ProviderFailureSurfaces == [][C30_Step]_vars

----------------------------------------------------------------------------
(* Properties of the clarification question, checked under SpecQuestion *)

\* the last step was a call of _generate_clarification_question
QuestionReturned ==
    /\ fn_last.status = "returned"
    /\ fn_last.fn = "_generate_clarification_question"

QuestionWordAt(i) == Split(fn_last.query)[i]

QuestionPositions == 1..Len(Split(fn_last.query))

\* token occurs, lower-cased, in the text of each of the two best candidates
SharedByCandidates(token) ==
    \A i \in 1..Len(fn_last.top_candidates) :
       Contains(token, Lower(fn_last.top_candidates[i].text))

\* the i-th word of the query is capitalized, is no question word and,
\* without its possessive ending, is shared by the candidates
CapitalizedShared(i) ==
    /\ IsUpper(QuestionWordAt(i)[1])
    /\ Lower(StripSentence(QuestionWordAt(i))) \notin question_words
    /\ SharedByCandidates(NormalizedWord(StripSentence(QuestionWordAt(i))))

\* the i-th word of the query is no stopword and is shared by the candidates
NonStopwordShared(i) ==
    /\ Lower(QuestionWordAt(i)) \notin common_words
    /\ SharedByCandidates(LowerStripSentence(QuestionWordAt(i)))

\* ... and is longer than three characters
LongShared(i) == Len(QuestionWordAt(i)) > 3 /\ NonStopwordShared(i)

FirstPosition(P(_)) ==
    CHOOSE i \in QuestionPositions : P(i) /\ \A j \in 1..(i - 1) : ~P(j)

----------------------------------------------------------------------------
(* Properties of record ids, checked under SpecLifecycle *)

\* the ids of the rows, in scan order
RowIds(rows) == [i \in 1..Len(rows) |-> rows[i].id]

IdSet(rows) == {rows[i].id : i \in 1..Len(rows)}

DistinctIds(rows) ==
    \A i, j \in 1..Len(rows) : i # j => rows[i].id # rows[j].id

\* this step is a call of store_memory
StoreStep == <<store_last, store_prev>>' # <<store_last, store_prev>>

\* C32: the stored records have pairwise distinct ids; update_memory leaves
\* every record's id as it was; a store call that inserts returns an id that
\* no record of the store had before the call.
C32_Step ==
    /\ DistinctIds(memories')
    /\ ManageStep("update") => RowIds(memories') = RowIds(memories)
    /\ ManageStep("delete") => IdSet(memories') \subseteq IdSet(memories)
    /\ (StoreStep /\ Len(memories') > Len(memories)) =>
          /\ store_last'.result.memory_id \notin IdSet(memories)
          /\ IdSet(memories') = IdSet(memories) \cup {store_last'.result.memory_id}
          /\ SubSeq(memories', 1, Len(memories)) = memories

C32_IdsDistinctAndStable == [][C32_Step]_vars

\* a table of two records, one of them with a text an update gave it, after
\* an earlier record has been deleted
C32_Witness ==
    /\ Len(memories) = 2
    /\ deleted_ids # {}
    /\ m_last.op = "update"
    /\ m_last.status = "ok"
    /\ m_last.result.success
    /\ m_last.memory_id \in IdSet(memories)

----------------------------------------------------------------------------
(* Properties of the cancel endpoint, checked under SpecCancel *)

\* the best-ranked record for a text, as query_memory(text, top_k=1) gives it
BestMatch(rows, text) == QueryMemory(rows, ProviderEmbedding(Strip(text)), 1)

\* C33: a cancel request never changes the table: it answers with the id of
\* the best-ranked record as target_memory_id when that record's similarity
\* to the input is strictly greater than 0.7 and with no target otherwise,
\* and a record stays in the table until delete_memory removes it.
\* Violated: the handler fails on every valid request before it looks at
\* the table.
C33_Step ==
    /\ (/\ EndpointStep("cancel")
        /\ a_last'.body.last_input_text.given
        /\ Strip(a_last'.body.last_input_text.value) # << >>
        /\ a_last'.provider_ok) =>
          LET best == BestMatch(memories, a_last'.body.last_input_text.value)
          IN /\ memories' = memories
             /\ a_last'.status = "ok"
             /\ a_last'.target_memory_id =
                   IF best # << >> /\ best[1].similarity_score > CANCEL_SIMILARITY
                   THEN Given(best[1].memory_id)
                   ELSE Absent
    /\ ~ManageStep("delete") => memories' = memories

C33_CancelOnlyNamesTarget == [][C33_Step]_vars

----------------------------------------------------------------------------
(* Properties of force_action, checked under SpecForce *)

\* the metadata auto_endpoint gives store_memory for a forced store
ForcedMetadata ==
    Dict([timestamp |-> "ts", language |-> "en", location |-> NoValue])

\* C34: with force_action store or retrieve, auto_endpoint runs exactly that
\* action whatever the classifier would answer (a clarify decision, a low
\* confidence, an error); a forced store is one store_memory call on the
\* trimmed text, with the duplicate detection of a plain store, and a forced
\* retrieve is one query_memory call that leaves the table alone.
C34_Step ==
    (/\ EndpointStep("auto")
     /\ a_last'.force_action.given
     /\ Strip(a_last'.text) # << >>) =>
        LET forced == a_last'.force_action.value
            plain == StoreOutcome(memories, embedding_cache, next_uuid,
                                  Strip(a_last'.text), ForcedMetadata,
                                  a_last'.provider_ok, TRUE)
        IN /\ a_last'.action = forced
           /\ a_last'.executed = IF forced = "store" THEN "store" ELSE "query"
           /\ forced = "store" =>
                 /\ memories' = plain.memories
                 /\ next_uuid' = plain.next_uuid
                 /\ (a_last'.status = "ok") = (plain.status = "ok")
                 /\ plain.status = "ok" =>
                       /\ a_last'.http_status = 201
                       /\ a_last'.result.duplicate_detected
                             = plain.result.duplicate_detected
                       /\ a_last'.result.memory_id = plain.result.memory_id
           /\ forced = "retrieve" =>
                 /\ memories' = memories
                 /\ a_last'.status = "ok" =>
                       a_last'.result.candidates
                          = QueryMemory(memories,
                                        ProviderEmbedding(Strip(a_last'.text)),
                                        AUTO_TOP_K)

C34_ForcedActionRuns == [][C34_Step]_vars

\* a forced store of a text the table already holds, answered as a duplicate,
\* in a call where the classifier would have asked to clarify
C34_Witness ==
    /\ a_last.status # "none"
    /\ a_last.endpoint = "auto"
    /\ a_last.force_action = Given("store")
    /\ a_last.llm = LlmDecides("clarify", 100)
    /\ a_last.status = "ok"
    /\ a_last.executed = "store"
    /\ a_last.result.duplicate_detected
    /\ Len(memories) = 2

----------------------------------------------------------------------------
(* Authentication and the rate limiter, checked under SpecRate *)

\* thread t leaves rate_limit_guard's critical section in this step
GuardDecidesBy(t) == rl_pc[t] = "check" /\ rl_pc'[t] = "idle"

\* C35: with authentication enabled, a request whose X-API-KEY is missing or
\* is not a configured key (api_key_guard answers it 401) is not rate
\* limited: rate_limit_guard creates or increments no counter for it and
\* never rejects it.
\* Violated: the guard exempts only the missing key and counts every other
\* key it is given.
C35_Step ==
    \A t \in Threads :
        /\ (GuardDecidesBy(t) /\ ApiKeyGuard(api_auth_key, rl_key[t]) = "401") =>
              /\ rate_limit_counters' = rate_limit_counters
              /\ rl_result'[t] # "rejected"
        /\ (rl_pc[t] = "idle" /\ rl_result'[t] = "skipped") =>
              rate_limit_counters' = rate_limit_counters

C35_RejectedForAuthNotRateLimited == [][C35_Step]_vars

----------------------------------------------------------------------------
(* Properties of cosine_similarity, checked under SpecCosine *)

\* the last step was a call of cosine_similarity
CosineReturned == fn_last.status = "returned" /\ fn_last.fn = "cosine_similarity"

ZeroNorm(v) == \A i \in 1..Len(v) : v[i] = 0

\* C36 as stated: 0.0 without raising when either vector has zero norm, the
\* dimension error whenever the two lengths differ, a ValueError when either
\* vector is empty.  Violated: an empty vector and a non-empty one have
\* different lengths and get the "cannot be empty" error.
C36_DimensionErrorWheneverLengthsDiffer ==
    CosineReturned =>
       /\ Len(fn_last.a) # Len(fn_last.b) =>
             /\ fn_last.result.status = "ValueError"
             /\ fn_last.result.error = "Vector dimensions must match"
       /\ (fn_last.a = << >> \/ fn_last.b = << >>) =>
             fn_last.result.status = "ValueError"
       /\ (/\ Len(fn_last.a) = Len(fn_last.b)
           /\ fn_last.a # << >>
           /\ ZeroNorm(fn_last.a) \/ ZeroNorm(fn_last.b)) =>
             fn_last.result = [status |-> "ok", value |-> 0]

\* C36 (amended): cosine_similarity raises the ValueError "cannot be empty"
\* when either vector is empty, whatever the lengths; raises the ValueError
\* "dimensions must match" when both are non-empty and their lengths differ;
\* and otherwise returns, with 0.0 when either vector has zero norm.
C36_EmptyBeforeDimension ==
    CosineReturned =>
       IF fn_last.a = << >> \/ fn_last.b = << >>
       THEN fn_last.result = [status |-> "ValueError",
                              error |-> "Embedding vectors cannot be empty"]
       ELSE IF Len(fn_last.a) # Len(fn_last.b)
       THEN fn_last.result = [status |-> "ValueError",
                              error |-> "Vector dimensions must match"]
       ELSE /\ fn_last.result.status = "ok"
            /\ (ZeroNorm(fn_last.a) \/ ZeroNorm(fn_last.b)) =>
                  fn_last.result.value = 0

\* a call with an empty and a non-empty vector, and the error it raised
C36_Witness ==
    /\ CosineReturned
    /\ fn_last.a = << >>
    /\ Len(fn_last.b) > 0
    /\ fn_last.result.status = "ValueError"
    /\ fn_last.result.error = "Embedding vectors cannot be empty"

----------------------------------------------------------------------------
(* Properties of the table under store and delete, checked under
   SpecStoreDelete *)

\* the similarity of two rows of the table
RowSimilarity(rows, i, j) ==
    cosine_similarity(JsonLoads(rows[i].embedding), JsonLoads(rows[j].embedding))

\* C37: after any sequence of store_memory and delete_memory calls, one at a
\* time, no two records of the table have a similarity of 0.85 or more.
C37_NoTwoDuplicatesStored ==
    \A i, j \in 1..Len(memories) :
        i # j => RowSimilarity(memories, i, j) < DUPLICATE_THRESHOLD

\* two records just below the threshold are stored, a store of a text that
\* duplicates both has just been refused, and a record was deleted before
C37_Witness ==
    /\ Len(memories) = 2
    /\ RowSimilarity(memories, 1, 2) = (80 * SCORE_SCALE) \div 100
    /\ store_last.status = "ok"
    /\ store_last.result.duplicate_detected
    /\ store_last.text = <<"b">>
    /\ deleted_ids # {}

----------------------------------------------------------------------------
(* Properties of sessions beside the table, checked under SpecSnapshot *)

\* this step is a call of get_session_candidates
SessionGetStep == sess_last' # sess_last /\ sess_last'.op = "get"

\* C38: a session keeps a copy of the candidates it was created with: a
\* store, update or delete on the table leaves the session store as it was,
\* and get_session_candidates on a session returns the candidates given to
\* create_session, whatever has happened to their records since.
C38_Step ==
    /\ (StoreStep \/ ManageStep("update") \/ ManageStep("delete")) =>
          session_store' = session_store
    /\ (SessionGetStep /\ sess_last'.session_id \in DOMAIN session_store) =>
          sess_last'.returned
             = Found(sess_created[sess_last'.session_id].candidates)

C38_SessionIsSnapshot == [][C38_Step]_vars

\* a session read after one of its candidates' records was deleted and
\* another's text was changed, returning both as they were
C38_Witness ==
    /\ sess_last.op = "get"
    /\ sess_last.returned.found
    /\ \E i \in 1..Len(sess_last.returned.value) :
          sess_last.returned.value[i].memory_id \notin IdSet(memories)
    /\ \E i \in 1..Len(sess_last.returned.value), j \in 1..Len(memories) :
          /\ sess_last.returned.value[i].memory_id = memories[j].id
          /\ sess_last.returned.value[i].text # memories[j].text

----------------------------------------------------------------------------
(* Clarification by id and the candidate sets, checked under SpecClarify *)

\* C39: a clarification that names the id of a stored record succeeds and
\* returns that record, whether or not the id is among the candidates of the
\* query or in the candidates of the session named in the request (no session
\* is looked up), and whether or not a phrase is supplied as well.
\* Violated: the handler fails on every valid request before it reads the id
\* (the defect of C11).
C39_AnyStoredIdResolves ==
    (/\ ClarifyAsked
     /\ ChosenId \in IdSet(memories)) =>
        /\ c_last.status = "ok"
        /\ c_last.result.clarification_resolved
        /\ c_last.result.memory_id = ChosenId
        /\ c_last.result.text = memories[RowOfId(memories, ChosenId)].text
        /\ session_store = c_last.sessions_before

====
